---- MODULE Spec2Model ----
(***************************************************************************)
(* Simulacion de una colmena: el contenedor compartido Colmena             *)
(* (colmena.py), el ciclo de vida de las abejas y la Reina (agentes.py)    *)
(* y el gestor de eventos que da la senal de fin (eventos.py).             *)
(*                                                                         *)
(* Each thread of the program is an identifier with a program counter pc.  *)
(* A critical section that takes no further lock inside is one step; a     *)
(* nested acquisition is a step of its own, so that a thread can be seen   *)
(* holding one lock while it waits for the next.                           *)
(***************************************************************************)
EXTENDS Integers, Sequences, FiniteSets, TLC

\* ------------------------------------------------------------------ bounds
MaxCeldas == 1          \* capacidad_celdas is drawn from 0..MaxCeldas
MaxLarvas == 1          \* num_larvas is drawn from 0..MaxLarvas
MaxNectar == 2          \* almacenar_nectar is called while nectar_almacenado < MaxNectar
NumAlmacenadoras == 2   \* threads calling almacenar_nectar
NumNodrizas == 1        \* threads calling alimentar_larva
CapacidadPolen == 1     \* amounts handed to almacenar_nectar are 1..CapacidadPolen
MaxCarrera == 3         \* callers racing for the cells, and the cells of their pool
MaxRegistro == 4        \* bees in Reina.abejas_activas when she rebalances
MaxFuera == 1           \* bees of each role counted in the census and not in abejas_activas
MaxCambios == 3         \* reasignar_roles is called while cambios_rol < MaxCambios
MaxObreras == 1         \* workers that main starts in a run of the hive
MaxReemplazos == 1      \* workers that the Reina creates in a run of the hive
MaxEncolado == 1        \* amounts in queue_nectar when a run of the hive starts
MaxFlores == 1          \* a Recolectora goes on while flores_visitadas < MaxFlores
MaxMensajes == 2        \* workers go on while queue_reina holds less than MaxMensajes
MaxReserva == 3         \* cells with nectar, and larvae, when alimentar_larva is called on its own
MaxLlamadas == 4        \* calls in a row that one caller makes on its own
MaxCalidad == 15        \* calidad_flores is -MaxCalidad..MaxCalidad tenths when visitar_flor is called on its own
MaxPolen == 5           \* capacidad_polen is 1..MaxPolen when visitar_flor is called on its own
MaxDefensoras == 2      \* Defensoras that main starts in a run with attacks
MaxAtaques == 1         \* EventoAtaque raises an attack while ataques_detectados < MaxAtaques

Libre == 0              \* holder of a lock nobody holds

LockNames == {"lock_celdas", "lock_larvas", "lock_estadisticas", "lock_roles",
              "lock_calidad_flores"}

VARIABLES
    capacidad_celdas,     \* Colmena.capacidad_celdas
    num_larvas,           \* Colmena.num_larvas
    celdas_ocupadas,      \* Colmena.celdas_ocupadas
    semaforo_celdas,      \* value of Colmena.semaforo_celdas
    larvas_alimentadas,   \* Colmena.larvas_alimentadas
    contador_global,      \* Colmena.contador_global
    locks,                \* holder of each threading.Lock of Colmena
    clase,                \* thread -> the class whose code it runs
    pc,                   \* thread -> position in its code
    loc,                  \* thread -> the argument cantidad of its call
    ret,                  \* thread -> value returned by its last call
    pendientes,           \* thread -> calls it still makes (-1: it calls for ever)
    escenario,            \* the run's inputs: its kind, the callers and the free cells
    rol,                  \* Abeja.rol of each bee
    abejas_por_rol,       \* Colmena.abejas_por_rol
    abejas_activas,       \* Reina.abejas_activas: the ids, in the order of insertion
    equilibrio_ideal,     \* Reina.equilibrio_ideal, in hundredths
    event_fin_simulacion, \* Colmena.event_fin_simulacion is set
    event_dia,            \* Colmena.event_dia is set
    event_ataque,         \* Colmena.event_ataque is set
    queue_reina,          \* Colmena.queue_reina
    queue_nectar,         \* Colmena.queue_nectar
    intentos,             \* bee -> intentos_vacios or intentos_sin_alimento
    fin_al_salir,         \* bee -> what event_fin_simulacion was when it left its loop
    rol_ciclo,            \* bee -> Abeja.rol when the round of its loop it is in began
    puerta,               \* bee -> <<event_dia, Abeja.rol>> as the night test of its round read them
    nectar_consumido,     \* id -> Colmena.estadisticas_abejas[id]["nectar_consumido"]
    eventos               \* position of each thread of eventos.py

colmenaVars == <<capacidad_celdas, num_larvas, celdas_ocupadas, semaforo_celdas,
                 larvas_alimentadas, contador_global, locks>>
hiloVars == <<clase, pc, loc, ret>>
censoVars == <<rol, abejas_por_rol>>
reinaVars == <<abejas_activas, equilibrio_ideal>>
\* what no operation on the cells and the larvae touches
eventVars == <<event_fin_simulacion, event_dia, event_ataque>>
colaVars == <<queue_reina, queue_nectar>>
vidaVars == <<eventVars, colaVars, intentos, fin_al_salir, rol_ciclo, puerta, eventos>>
\* estadisticas_abejas: the one count that no key of contador_global repeats
estadVars == <<nectar_consumido>>
otrasVars == <<escenario, censoVars, reinaVars, vidaVars, estadVars>>
vars == <<colmenaVars, hiloVars, pendientes, otrasVars>>

\* self.estadisticas_abejas = defaultdict(lambda: defaultdict(int)): no id has
\* an entry until its first count
SinEstadisticas == [id \in {} |-> 0]

\* the night test of the round has not been made
SinPuerta == << >>

\* a defaultdict(int) read: 0 for an id that has no entry
Leer(estadistica, id) == IF id \in DOMAIN estadistica THEN estadistica[id] ELSE 0

\* estadistica[id] += 1
Apuntar(estadistica, id) ==
    [otra \in DOMAIN estadistica \cup {id} |-> IF otra = id THEN Leer(estadistica, id) + 1
                                               ELSE estadistica[otra]]

\* ---------------------------------------------------------------- threads
IdReina == 1
IdAnalizador == 2
PrimeraObrera == 3
Almacenadoras == PrimeraObrera..(PrimeraObrera + NumAlmacenadoras - 1)
Nodrizas == (PrimeraObrera + NumAlmacenadoras)..(PrimeraObrera + NumAlmacenadoras + NumNodrizas - 1)
Hilos == {IdReina, IdAnalizador} \cup Almacenadoras \cup Nodrizas

ClaseInicial(t) ==
    IF t \in Almacenadoras THEN "almacenadora"
    ELSE IF t \in Nodrizas THEN "nodriza"
    ELSE IF t = IdReina THEN "reina"
    ELSE "analizador"

\* the keys of Reina.equilibrio_ideal and of Reina.fabrica_abejas, in their order
OrdenRoles == <<"recolectora", "almacenadora", "nodriza", "defensora">>
RolesObrera == {OrdenRoles[i] : i \in DOMAIN OrdenRoles}
Roles == RolesObrera \cup {"reina"}

\* the default of Reina.__init__: 40%, 25%, 25%, 10%
EquilibrioPorDefecto ==
    [r \in RolesObrera |->
        CASE r = "recolectora" -> 40
          [] r = "almacenadora" -> 25
          [] r = "nodriza" -> 25
          [] r = "defensora" -> 10]

\* the workers of main, which hold consecutive ids, in the order of their creation
EnOrden(obreras) == [i \in 1..Cardinality(obreras) |-> PrimeraObrera + i - 1]

\* Abeja.__init__ of every bee of abejas: registrar_abeja(id, rol) counts it
CensoDe(abejas, roles) ==
    [r \in Roles |-> Cardinality({a \in abejas : roles[a] = r})]

\* the events and the queues of Colmena.__init__: it is day, nothing else is set
SenalesInit ==
    /\ event_fin_simulacion = FALSE
    /\ event_dia = TRUE
    /\ event_ataque = FALSE
    /\ queue_reina = << >>
    /\ queue_nectar = << >>

\* no GestorEventos was started
SinEventos == [gestor |-> "no", dia_noche |-> "no", ataque |-> "no"]

\* the bees of a run whose threads are the callers of Colmena: the Reina and the
\* workers carry the role of their class, main registers the workers with her
AbejasDeHilos(hilos, clases) ==
    /\ SenalesInit
    /\ intentos = [t \in hilos |-> 0]
    /\ fin_al_salir = [t \in hilos |-> "None"]
    /\ rol_ciclo = [t \in hilos |-> clases[t]]
    /\ puerta = [t \in DOMAIN rol_ciclo |-> SinPuerta]
    /\ eventos = SinEventos
    /\ rol = [t \in hilos |-> clases[t]]
    /\ abejas_por_rol = CensoDe({t \in hilos : clases[t] \in Roles}, clases)
    /\ abejas_activas = EnOrden({t \in hilos : clases[t] \in RolesObrera})
    /\ equilibrio_ideal = EquilibrioPorDefecto

ContadorInicial ==
    [nectar_recolectado |-> 0, nectar_almacenado |-> 0, ataques_detectados |-> 0,
     ataques_neutralizados |-> 0, cambios_rol |-> 0, flores_visitadas |-> 0,
     larvas_alimentadas |-> 0]

\* Colmena.__init__ with the two capacities it is given
ColmenaInit(cap, larvas) ==
    /\ capacidad_celdas = cap
    /\ num_larvas = larvas
    /\ celdas_ocupadas = 0
    /\ semaforo_celdas = cap
    /\ larvas_alimentadas = 0
    /\ contador_global = ContadorInicial
    /\ locks = [l \in LockNames |-> Libre]

Init ==
    /\ \E cap \in 0..MaxCeldas, larvas \in 0..MaxLarvas : ColmenaInit(cap, larvas)
    /\ clase = [t \in Hilos |-> ClaseInicial(t)]
    /\ pc = [t \in Hilos |-> "ciclo"]
    /\ loc = [t \in Hilos |-> 0]
    /\ ret = [t \in Hilos |-> "None"]
    /\ pendientes = [t \in Hilos |-> -1]
    /\ nectar_consumido = SinEstadisticas
    /\ escenario = [tipo |-> "concurrente", llamadores |-> 0, libres |-> 0]
    /\ AbejasDeHilos(Hilos, clase)

\* ------------------------------------------------------ locks of Colmena
Tomar(l, t) == [locks EXCEPT ![l] = t]
Soltar(ls) == [l \in LockNames |-> IF l \in ls THEN Libre ELSE locks[l]]
LocksDe(t) == {l \in LockNames : locks[l] = t}

\* --------------------------------------------- Colmena.almacenar_nectar
\* self.semaforo_celdas.acquire(blocking=False)
\* the counter of the semaphore never taken down
SemaforoAcquire_sin_decremento(sem) == sem
SemaforoAcquire(sem) == IF sem > 0 THEN sem - 1 ELSE sem
\* the result of acquire(blocking=False) ignored
SemaforoAcquired_ignorado(sem) == TRUE
SemaforoAcquired(sem) == sem > 0

almacenar_nectar_semaforo(t, cantidad) ==
    /\ pc[t] = "ciclo" /\ clase[t] = "almacenadora"
    /\ semaforo_celdas' = SemaforoAcquire(semaforo_celdas)
    /\ IF SemaforoAcquired(semaforo_celdas)
          THEN /\ pc' = [pc EXCEPT ![t] = "alm_celdas"]
               /\ loc' = [loc EXCEPT ![t] = cantidad]
               /\ ret' = [ret EXCEPT ![t] = "None"]
          ELSE /\ pc' = pc
               /\ loc' = loc
               /\ ret' = [ret EXCEPT ![t] = "False"]
    /\ UNCHANGED <<capacidad_celdas, num_larvas, celdas_ocupadas, larvas_alimentadas,
                   contador_global, locks, clase, otrasVars>>

\* with self.lock_celdas: self.celdas_ocupadas += 1
almacenar_nectar_celdas(t) ==
    /\ pc[t] = "alm_celdas"
    /\ locks["lock_celdas"] = Libre
    /\ celdas_ocupadas' = celdas_ocupadas + 1
    /\ pc' = [pc EXCEPT ![t] = "alm_estadisticas"]
    /\ UNCHANGED <<capacidad_celdas, num_larvas, semaforo_celdas, larvas_alimentadas,
                   contador_global, locks, clase, loc, ret, pendientes, otrasVars>>

\* with self.lock_estadisticas: nectar_almacenado += cantidad; return True
almacenar_nectar_estadisticas(t) ==
    /\ pc[t] = "alm_estadisticas"
    /\ locks["lock_estadisticas"] = Libre
    /\ contador_global' = [contador_global EXCEPT
                              !.nectar_almacenado = @ + loc[t]]
    /\ pc' = [pc EXCEPT ![t] = "ciclo"]
    /\ loc' = [loc EXCEPT ![t] = 0]
    /\ ret' = [ret EXCEPT ![t] = "True"]
    /\ UNCHANGED <<capacidad_celdas, num_larvas, celdas_ocupadas, semaforo_celdas,
                   larvas_alimentadas, locks, clase, pendientes, otrasVars>>

\* ---------------------------------------------- Colmena.consumir_nectar
\* the check that takes a cell whether or not one holds nectar
HayNectar_siempre(ocupadas) == TRUE

\* if self.celdas_ocupadas > 0
HayNectar(ocupadas) == ocupadas > 0

\* with self.lock_celdas: if self.celdas_ocupadas > 0: decrement, release the
\* semaphore and go on to lock_estadisticas; else return False
consumir_nectar_celdas(t) ==
    /\ pc[t] = "ciclo" /\ clase[t] = "nodriza"
    /\ locks["lock_celdas"] = Libre
    /\ IF HayNectar(celdas_ocupadas)
          THEN /\ celdas_ocupadas' = celdas_ocupadas - 1
               /\ semaforo_celdas' = semaforo_celdas + 1
               /\ locks' = Tomar("lock_celdas", t)
               /\ pc' = [pc EXCEPT ![t] = "con_estadisticas"]
               /\ ret' = [ret EXCEPT ![t] = "None"]
          ELSE /\ UNCHANGED <<celdas_ocupadas, semaforo_celdas, locks, pc>>
               /\ ret' = [ret EXCEPT ![t] = "False"]
    /\ UNCHANGED <<capacidad_celdas, num_larvas, larvas_alimentadas, contador_global,
                   clase, loc, otrasVars>>

\* with self.lock_estadisticas (lock_celdas still held)
consumir_nectar_estadisticas(t) ==
    /\ pc[t] = "con_estadisticas"
    /\ locks["lock_estadisticas"] = Libre
    /\ locks' = Tomar("lock_estadisticas", t)
    /\ pc' = [pc EXCEPT ![t] = "con_return"]
    /\ UNCHANGED <<capacidad_celdas, num_larvas, celdas_ocupadas, semaforo_celdas,
                   larvas_alimentadas, contador_global, clase, loc, ret, pendientes, otrasVars>>

\* estadisticas_abejas[id]["nectar_consumido"] += 1; return True: both locks
\* are released and alimentar_larva goes on
consumir_nectar_return(t) ==
    /\ pc[t] = "con_return"
    /\ nectar_consumido' = Apuntar(nectar_consumido, t)
    /\ locks' = Soltar({"lock_estadisticas", "lock_celdas"})
    /\ pc' = [pc EXCEPT ![t] = "ali_larvas"]
    /\ UNCHANGED <<capacidad_celdas, num_larvas, celdas_ocupadas, semaforo_celdas,
                   larvas_alimentadas, contador_global, clase, loc, ret, pendientes,
                   escenario, censoVars, reinaVars, vidaVars>>

\* ---------------------------------------------- Colmena.alimentar_larva
\* the check that never finds a larva left
HayLarvaSinAlimentar_nunca(alimentadas, larvas) == FALSE

\* if self.larvas_alimentadas < self.num_larvas
HayLarvaSinAlimentar_inclusive(alimentadas, larvas) == alimentadas <= larvas
HayLarvaSinAlimentar(alimentadas, larvas) == alimentadas < larvas

\* with self.lock_larvas: the check and the increment
alimentar_larva_larvas(t) ==
    /\ pc[t] = "ali_larvas"
    /\ locks["lock_larvas"] = Libre
    /\ IF HayLarvaSinAlimentar(larvas_alimentadas, num_larvas)
          THEN /\ larvas_alimentadas' = larvas_alimentadas + 1
               /\ locks' = Tomar("lock_larvas", t)
               /\ pc' = [pc EXCEPT ![t] = "ali_estadisticas"]
               /\ ret' = ret
          ELSE /\ UNCHANGED <<larvas_alimentadas, locks>>
               /\ pc' = [pc EXCEPT ![t] = "ciclo"]
               /\ ret' = [ret EXCEPT ![t] = "False"]
    /\ UNCHANGED <<capacidad_celdas, num_larvas, celdas_ocupadas, semaforo_celdas,
                   contador_global, clase, loc, pendientes, otrasVars>>

\* with self.lock_estadisticas (lock_larvas still held)
alimentar_larva_estadisticas(t) ==
    /\ pc[t] = "ali_estadisticas"
    /\ locks["lock_estadisticas"] = Libre
    /\ locks' = Tomar("lock_estadisticas", t)
    /\ pc' = [pc EXCEPT ![t] = "ali_return"]
    /\ UNCHANGED <<capacidad_celdas, num_larvas, celdas_ocupadas, semaforo_celdas,
                   larvas_alimentadas, contador_global, clase, loc, ret, pendientes, otrasVars>>

\* contador_global["larvas_alimentadas"] += 1; return True
alimentar_larva_return(t) ==
    /\ pc[t] = "ali_return"
    /\ contador_global' = [contador_global EXCEPT !.larvas_alimentadas = @ + 1]
    /\ locks' = Soltar({"lock_estadisticas", "lock_larvas"})
    /\ pc' = [pc EXCEPT ![t] = "ciclo"]
    /\ ret' = [ret EXCEPT ![t] = "True"]
    /\ UNCHANGED <<capacidad_celdas, num_larvas, celdas_ocupadas, semaforo_celdas,
                   larvas_alimentadas, clase, loc, pendientes, otrasVars>>

\* --------------------------------------------- Colmena.obtener_metricas
\* with self.lock_estadisticas, self.lock_celdas: the first of the two
obtener_metricas_estadisticas(t) ==
    /\ pc[t] = "ciclo" /\ clase[t] \in {"reina", "analizador"}
    /\ locks["lock_estadisticas"] = Libre
    /\ locks' = Tomar("lock_estadisticas", t)
    /\ pc' = [pc EXCEPT ![t] = "met_celdas"]
    /\ UNCHANGED <<capacidad_celdas, num_larvas, celdas_ocupadas, semaforo_celdas,
                   larvas_alimentadas, contador_global, clase, loc, ret, otrasVars>>

\* the second: lock_celdas (lock_estadisticas still held)
obtener_metricas_celdas(t) ==
    /\ pc[t] = "met_celdas"
    /\ locks["lock_celdas"] = Libre
    /\ locks' = Tomar("lock_celdas", t)
    /\ pc' = [pc EXCEPT ![t] = "met_return"]
    /\ UNCHANGED <<capacidad_celdas, num_larvas, celdas_ocupadas, semaforo_celdas,
                   larvas_alimentadas, contador_global, clase, loc, ret, pendientes, otrasVars>>

\* where the caller goes on: in Reina.trabajar the call is the last statement
DespuesDeMetricas(t) ==
    IF escenario.tipo \in {"vida", "parada", "falla"} THEN "vida" ELSE "ciclo"

\* the snapshot is taken and both locks are released
obtener_metricas_return(t) ==
    /\ pc[t] = "met_return"
    /\ locks' = Soltar({"lock_estadisticas", "lock_celdas"})
    /\ pc' = [pc EXCEPT ![t] = DespuesDeMetricas(t)]
    /\ UNCHANGED <<capacidad_celdas, num_larvas, celdas_ocupadas, semaforo_celdas,
                   larvas_alimentadas, contador_global, clase, loc, ret, pendientes, otrasVars>>

\* ------------------------------------------------------------ callers
\* A thread calls once more: for ever (pendientes = -1) while the model's bound
\* on the counters allows it, or as often as its scenario says
OtraLlamada(t, permitida) ==
    /\ IF pendientes[t] < 0 THEN permitida ELSE pendientes[t] > 0
    /\ pendientes' = [pendientes EXCEPT ![t] = IF @ < 0 THEN @ ELSE @ - 1]

\* Almacenadora.trabajar: self.colmena.almacenar_nectar(cantidad, self.id_abeja)
LlamarAlmacenarNectar(t, cantidad) ==
    /\ OtraLlamada(t, contador_global.nectar_almacenado < MaxNectar)
    /\ almacenar_nectar_semaforo(t, cantidad)

\* Nodriza.trabajar: self.colmena.alimentar_larva(self.id_abeja)
LlamarAlimentarLarva(t) ==
    /\ OtraLlamada(t, TRUE)
    /\ consumir_nectar_celdas(t)

\* Reina.trabajar and Analizador._recopilar_periodicamente:
\* self.colmena.obtener_metricas()
LlamarObtenerMetricas(t) ==
    /\ OtraLlamada(t, TRUE)
    /\ obtener_metricas_estadisticas(t)

\* ------------------------------------------------------- specification
Next ==
    \/ \E t \in DOMAIN pc, cantidad \in 1..CapacidadPolen : LlamarAlmacenarNectar(t, cantidad)
    \/ \E t \in DOMAIN pc : almacenar_nectar_celdas(t)
    \/ \E t \in DOMAIN pc : almacenar_nectar_estadisticas(t)
    \/ \E t \in DOMAIN pc : LlamarAlimentarLarva(t)
    \/ \E t \in DOMAIN pc : consumir_nectar_estadisticas(t)
    \/ \E t \in DOMAIN pc : consumir_nectar_return(t)
    \/ \E t \in DOMAIN pc : alimentar_larva_larvas(t)
    \/ \E t \in DOMAIN pc : alimentar_larva_estadisticas(t)
    \/ \E t \in DOMAIN pc : alimentar_larva_return(t)
    \/ \E t \in DOMAIN pc : LlamarObtenerMetricas(t)
    \/ \E t \in DOMAIN pc : obtener_metricas_celdas(t)
    \/ \E t \in DOMAIN pc : obtener_metricas_return(t)

Spec == Init /\ [][Next]_vars

\* ----------------------------------------- almacenar_nectar on its own
\* A Colmena in which ocupadas cells were stored before, as the calls of Spec
\* leave it when every caller has returned
ColmenaConCeldas(cap, ocupadas) ==
    /\ capacidad_celdas = cap
    /\ num_larvas = 0
    /\ celdas_ocupadas = ocupadas
    /\ semaforo_celdas = cap - ocupadas
    /\ larvas_alimentadas = 0
    /\ contador_global = [ContadorInicial EXCEPT !.nectar_almacenado = ocupadas]
    /\ locks = [l \in LockNames |-> Libre]

Corredoras == PrimeraObrera..(PrimeraObrera + MaxCarrera - 1)

\* the callers of llamadoras call almacenar_nectar once each, at the same time
InitCarrera ==
    \E cap \in 0..MaxCarrera, llamadoras \in SUBSET Corredoras :
      \E ocupadas \in 0..cap :
        /\ ColmenaConCeldas(cap, ocupadas)
        /\ pendientes = [t \in Corredoras |-> IF t \in llamadoras THEN 1 ELSE 0]
        /\ nectar_consumido = SinEstadisticas
        /\ escenario = [tipo |-> "carrera", llamadores |-> Cardinality(llamadoras),
                        libres |-> cap - ocupadas]

\* one caller calls almacenar_nectar 12 times in a row on a new Colmena of 10 cells
InitSecuencial ==
    /\ ColmenaConCeldas(10, 0)
    /\ pendientes = [t \in Corredoras |-> IF t = PrimeraObrera THEN 12 ELSE 0]
    /\ nectar_consumido = SinEstadisticas
    /\ escenario = [tipo |-> "secuencial", llamadores |-> 1, libres |-> 10]

InitAlmacen ==
    /\ InitCarrera \/ InitSecuencial
    /\ clase = [t \in Corredoras |-> "almacenadora"]
    /\ pc = [t \in Corredoras |-> "ciclo"]
    /\ loc = [t \in Corredoras |-> 0]
    /\ ret = [t \in Corredoras |-> "None"]
    /\ AbejasDeHilos(Corredoras, clase)

NextAlmacen ==
    \/ \E t \in DOMAIN pc, cantidad \in 1..CapacidadPolen : LlamarAlmacenarNectar(t, cantidad)
    \/ \E t \in DOMAIN pc : almacenar_nectar_celdas(t)
    \/ \E t \in DOMAIN pc : almacenar_nectar_estadisticas(t)

SpecAlmacen == InitAlmacen /\ [][NextAlmacen]_vars

Min(a, b) == IF a <= b THEN a ELSE b
Max(a, b) == IF a >= b THEN a ELSE b

\* every call of the scenario has returned
TodasRetornaron == \A t \in DOMAIN pc : pc[t] = "ciclo" /\ pendientes[t] = 0

Retornaron(valor) == {t \in DOMAIN pc : ret[t] = valor}

\* ------------------------------------------------------------------ C2
\* C2: when N threads call almacenar_nectar at the same time with F free cells
\* and nobody consumes, exactly min(N, F) calls return True and the others False,
\* whatever the interleaving; and of 12 calls in a row on 10 cells the first 10
\* return True, the last 2 return False and celdas_ocupadas ends at 10
AlmacenanMinLlamadoresLibres ==
    /\ (escenario.tipo = "carrera" /\ TodasRetornaron) =>
          /\ Cardinality(Retornaron("True")) = Min(escenario.llamadores, escenario.libres)
          /\ Cardinality(Retornaron("False")) =
                escenario.llamadores - Min(escenario.llamadores, escenario.libres)
    /\ (escenario.tipo = "secuencial" /\ pc[PrimeraObrera] = "ciclo"
                                      /\ pendientes[PrimeraObrera] < 12) =>
          /\ ret[PrimeraObrera] = (IF 12 - pendientes[PrimeraObrera] <= 10 THEN "True" ELSE "False")
          /\ celdas_ocupadas = Min(12 - pendientes[PrimeraObrera], 10)

\* a race of more callers than free cells has ended, with nectar stored before
CarreraConRechazos ==
    /\ escenario.tipo = "carrera"
    /\ TodasRetornaron
    /\ escenario.libres >= 2
    /\ escenario.libres < capacidad_celdas
    /\ escenario.llamadores > escenario.libres
    /\ Cardinality(Retornaron("True")) = escenario.libres
    /\ Cardinality(Retornaron("False")) >= 1

\* ------------------------------------------------------- Reina: roles
\* Colmena.cambiar_rol_abeja, on the census
cambiar_rol_abeja_sin_baja(censo, rol_anterior, rol_nuevo) ==
    [censo EXCEPT ![rol_nuevo] = @ + 1]
cambiar_rol_abeja(censo, rol_anterior, rol_nuevo) ==
    [censo EXCEPT ![rol_anterior] = @ - 1, ![rol_nuevo] = @ + 1]

\* Abeja.cambiar_rol: the label of the bee, the census and cambios_rol
cambiar_rol(a, nuevo_rol) ==
    /\ rol' = [rol EXCEPT ![a] = nuevo_rol]
    /\ abejas_por_rol' = cambiar_rol_abeja(abejas_por_rol, rol[a], nuevo_rol)
    /\ contador_global' = [contador_global EXCEPT !.cambios_rol = @ + 1]

\* Python's round(n / d) for d > 0: to the nearest, a half to the even
Redondear(n, d) ==
    LET q == n \div d
        r == n % d
    IN IF 2 * r > d \/ (2 * r = d /\ q % 2 = 1) THEN q + 1 ELSE q

\* sum(distribucion_actual.values())
TotalAbejas(censo) ==
    LET Suma[i \in 0..Len(OrdenRoles)] ==
            IF i = 0 THEN censo["reina"] ELSE Suma[i - 1] + censo[OrdenRoles[i]]
    IN Suma[Len(OrdenRoles)]

\* Reina.calcular_roles_ideales
calcular_roles_ideales(total_abejas) ==
    [r \in RolesObrera |-> Redondear(total_abejas * equilibrio_ideal[r], 100)]

\* diferencias[rol]: float('inf'), or the fraction (actual - ideal) / ideal
Diferencia(actual, ideal) ==
    IF ideal = 0
       THEN [inf |-> actual > 0, num |-> 0, den |-> 1]
       ELSE [inf |-> FALSE, num |-> actual - ideal, den |-> ideal]

\* x > y on these values
Mayor(x, y) ==
    IF x.inf THEN ~ y.inf
    ELSE IF y.inf THEN FALSE
    ELSE x.num * y.den > y.num * x.den

\* max(diferencias, key=diferencias.get): the first key of the greatest value
PrimerMaximo(dif) ==
    LET M[i \in 1..Len(OrdenRoles)] ==
            IF i = 1 THEN 1
            ELSE IF Mayor(dif[OrdenRoles[i]], dif[OrdenRoles[M[i - 1]]]) THEN i
            ELSE M[i - 1]
    IN OrdenRoles[M[Len(OrdenRoles)]]

\* min(diferencias, key=diferencias.get): the first key of the least value
PrimerMinimo(dif) ==
    LET M[i \in 1..Len(OrdenRoles)] ==
            IF i = 1 THEN 1
            ELSE IF Mayor(dif[OrdenRoles[M[i - 1]]], dif[OrdenRoles[i]]) THEN i
            ELSE M[i - 1]
    IN OrdenRoles[M[Len(OrdenRoles)]]

\* x > 0.1 and x < -0.1
SobreUmbral(x) == x.inf \/ 10 * x.num > x.den
BajoUmbral(x) == ~ x.inf /\ 10 * x.num < - x.den

\* the two comparisons turned round
HayDesequilibrio_invertido(excedente, deficiente) ==
    ~ SobreUmbral(excedente) /\ ~ BajoUmbral(deficiente)
\* if diferencias[rol_excedente] > 0.1 and diferencias[rol_deficiente] < -0.1
HayDesequilibrio(excedente, deficiente) ==
    SobreUmbral(excedente) /\ BajoUmbral(deficiente)

\* Reina.identificar_desequilibrio: <<rol_excedente, rol_deficiente>>, or None twice
identificar_desequilibrio ==
    LET total_abejas == TotalAbejas(abejas_por_rol)
        roles_ideales == calcular_roles_ideales(total_abejas)
        diferencias == [r \in RolesObrera |->
                           Diferencia(abejas_por_rol[r], roles_ideales[r])]
        rol_excedente == PrimerMaximo(diferencias)
        rol_deficiente == PrimerMinimo(diferencias)
    IN IF total_abejas = 0 THEN <<"None", "None">>
       ELSE IF HayDesequilibrio(diferencias[rol_excedente], diferencias[rol_deficiente])
            THEN <<rol_excedente, rol_deficiente>>
       ELSE <<"None", "None">>

\* the search that takes a bee of any role
ConRol_cualquiera(r) == DOMAIN abejas_activas

\* the places of abejas_activas whose bee carries the role
ConRol(r) == {i \in DOMAIN abejas_activas : rol[abejas_activas[i]] = r}
Primero(lugares) == CHOOSE i \in lugares : \A j \in lugares : i <= j

\* Reina.reasignar_roles
reasignar_roles(retorno) ==
    LET par == identificar_desequilibrio
    IN IF par[1] # "None" /\ par[2] # "None" /\ ConRol(par[1]) # {}
          THEN /\ cambiar_rol(abejas_activas[Primero(ConRol(par[1]))], par[2])
               /\ retorno = "True"
          ELSE /\ UNCHANGED <<rol, abejas_por_rol, contador_global>>
               /\ retorno = "False"

\* Reina.trabajar: self.reasignar_roles()
LlamarReasignarRoles(t) ==
    /\ pc[t] = "ciclo" /\ clase[t] = "reina"
    /\ OtraLlamada(t, contador_global.cambios_rol < MaxCambios)
    /\ \E retorno \in {"True", "False"} :
          /\ reasignar_roles(retorno)
          /\ ret' = [ret EXCEPT ![t] = retorno]
    /\ UNCHANGED <<capacidad_celdas, num_larvas, celdas_ocupadas, semaforo_celdas,
                   larvas_alimentadas, locks, clase, pc, loc, escenario, estadVars, reinaVars,
                   vidaVars>>

\* the ratio tables given to Reina.__init__, in hundredths
TablasIdeales ==
    { EquilibrioPorDefecto,
      [r \in RolesObrera |-> 25],
      [r \in RolesObrera |-> IF r = "recolectora" THEN 70 ELSE 10] }

\* A hive some time into its run: the Reina, the bees of abejas_activas with the
\* roles they carry now, and for each role the bees that the census counts and
\* abejas_activas does not hold (their death was dispatched)
ColmenaPoblada(roles, fuera, tabla) ==
    LET n == Len(roles)
        obreras == PrimeraObrera..(PrimeraObrera + n - 1)
        abejas == {IdReina} \cup obreras
        rolDe == [a \in abejas |-> IF a = IdReina THEN "reina"
                                   ELSE roles[a - PrimeraObrera + 1]]
    IN /\ ColmenaInit(MaxCeldas, MaxLarvas)
       /\ clase = rolDe
       /\ rol = rolDe
       /\ abejas_por_rol = [r \in Roles |-> CensoDe(abejas, rolDe)[r]
                                            + (IF r = "reina" THEN 0 ELSE fuera[r])]
       /\ abejas_activas = EnOrden(obreras)
       /\ equilibrio_ideal = tabla
       /\ SenalesInit
       /\ intentos = [a \in abejas |-> 0]
       /\ fin_al_salir = [a \in abejas |-> "None"]
       /\ rol_ciclo = rolDe
       /\ puerta = [t \in DOMAIN rol_ciclo |-> SinPuerta]
       /\ eventos = SinEventos
       /\ pc = [a \in abejas |-> "ciclo"]
       /\ loc = [a \in abejas |-> 0]
       /\ ret = [a \in abejas |-> "None"]
       /\ pendientes = [a \in abejas |-> -1]

\* census {recolectora: 4, almacenadora: 1, nodriza: 1, defensora: 1} under the
\* default table
RolesEscenarioC == <<"recolectora", "recolectora", "recolectora", "recolectora",
                     "almacenadora", "nodriza", "defensora">>

InitReina ==
    /\ nectar_consumido = SinEstadisticas
    /\ escenario = [tipo |-> "reequilibrio", llamadores |-> 1, libres |-> 0]
    /\ \/ \E n \in 0..MaxRegistro :
            \E roles \in [1..n -> RolesObrera], fuera \in [RolesObrera -> 0..MaxFuera],
               tabla \in TablasIdeales :
                 ColmenaPoblada(roles, fuera, tabla)
       \/ ColmenaPoblada(RolesEscenarioC, [r \in RolesObrera |-> 0], EquilibrioPorDefecto)

NextReina == \E t \in DOMAIN pc : LlamarReasignarRoles(t)

SpecReina == InitReina /\ [][NextReina]_vars

\* ------------------------------------------------------------ Abeja.run
celdasVars == <<capacidad_celdas, num_larvas, celdas_ocupadas, semaforo_celdas,
                larvas_alimentadas>>

\* the threads of eventos.py, once GestorEventos.run has started them
EventosInit == [gestor |-> "espera", dia_noche |-> "duerme", ataque |-> "espera"]

\* the workers that replaced a dead one
Reemplazos ==
    Cardinality({t \in DOMAIN pc : clase[t] \in RolesObrera}) - escenario.llamadores

\* the workers that left their loop and the deaths that wait in queue_reina
MuertesEnCamino ==
    Cardinality({t \in DOMAIN pc : /\ pc[t] \in {"except", "finally", "enviar_muerte"}
                                   /\ rol[t] \in RolesObrera})
    + Cardinality({i \in DOMAIN queue_reina : /\ queue_reina[i].tipo = "muerte"
                                              /\ queue_reina[i].rol \in RolesObrera})

\* time.time() - tiempo_inicio < self.tiempo_vida may fail: never in a run whose
\* tiempo_vida are all longer than tiempo_simulacion; else at any check, as long
\* as the replacements the deaths bring stay within MaxReemplazos
PuedeExpirar(t) ==
    /\ escenario.tipo = "vida"
    /\ rol[t] \in RolesObrera => Reemplazos + MuertesEnCamino < MaxReemplazos

\* the model lets a bee go round its loop once more
SigueTrabajando(t) ==
    CASE clase[t] = "recolectora" -> contador_global.flores_visitadas < MaxFlores
      [] clase[t] \in {"almacenadora", "nodriza"} -> Len(queue_reina) < MaxMensajes
      [] OTHER -> TRUE

\* while time.time() - tiempo_inicio < self.tiempo_vida and self.activa and
\*       not self.colmena.event_fin_simulacion.is_set()
\* (a bee out of its loop reads its counter of tries no more: it is forgotten)
run_while(t) ==
    /\ pc[t] = "vida"
    /\ rol_ciclo' = [rol_ciclo EXCEPT ![t] = rol[t]]
    /\ puerta' = [puerta EXCEPT ![t] = SinPuerta]
    /\ \E vencida \in BOOLEAN :
          /\ vencida => PuedeExpirar(t)
          /\ IF vencida \/ event_fin_simulacion
                THEN /\ pc' = [pc EXCEPT ![t] = "finally"]
                     /\ fin_al_salir' = [fin_al_salir EXCEPT ![t] =
                                            IF event_fin_simulacion THEN "True" ELSE "False"]
                     /\ intentos' = [intentos EXCEPT ![t] = 0]
                ELSE /\ SigueTrabajando(t)
                     /\ pc' = [pc EXCEPT ![t] = "dia"]
                     /\ UNCHANGED <<fin_al_salir, intentos>>
    /\ UNCHANGED <<colmenaVars, clase, loc, ret, pendientes, escenario, estadVars, censoVars,
                   reinaVars, eventVars, colaVars, eventos>>

\* if not self.colmena.event_dia.is_set() and self.rol != "defensora":
\*     time.sleep(1); continue
\* self.trabajar()
\* the test that sends no bee to rest
Descansa_nunca(es_dia, r) == FALSE
Descansa(es_dia, r) == ~ es_dia /\ r # "defensora"

run_dia(t) ==
    /\ pc[t] = "dia"
    /\ puerta' = [puerta EXCEPT ![t] = <<event_dia, rol[t]>>]
    /\ pc' = [pc EXCEPT ![t] =
                 IF Descansa(event_dia, rol[t]) THEN "vida"
                 ELSE IF clase[t] = "reina" THEN "reina_mensaje"
                 ELSE "ciclo"]
    /\ UNCHANGED <<colmenaVars, clase, loc, ret, pendientes, escenario, estadVars, censoVars,
                   reinaVars, eventVars, colaVars, intentos, fin_al_salir, rol_ciclo, eventos>>

\* finally: if not self.colmena.event_fin_simulacion.is_set()
\* the death reported whatever the event says
FinSenalado_ignorado(fin) == FALSE
FinSenalado(fin) == fin

run_finally(t) ==
    /\ pc[t] = "finally"
    /\ pc' = [pc EXCEPT ![t] = IF FinSenalado(event_fin_simulacion) THEN "muerta"
                               ELSE "enviar_muerte"]
    /\ UNCHANGED <<colmenaVars, clase, loc, ret, pendientes, otrasVars>>

\* self.colmena.enviar_mensaje_reina({"tipo": "muerte", "rol": ..., "id": ...})
run_enviar_muerte(t) ==
    /\ pc[t] = "enviar_muerte"
    /\ queue_reina' = Append(queue_reina, [tipo |-> "muerte", rol |-> rol[t], id |-> t])
    /\ pc' = [pc EXCEPT ![t] = "muerta"]
    /\ UNCHANGED <<colmenaVars, clase, loc, ret, pendientes, escenario, estadVars, censoVars,
                   reinaVars, eventVars, queue_nectar, intentos, fin_al_salir, rol_ciclo, puerta, eventos>>

\* ------------------------------------------------- Recolectora.trabajar
\* calidad_flores as EventoClima sets it, in tenths: 0.3 to 0.7 in the rain, 0.8 to
\* 1.2 after it; Colmena.__init__ sets 1.0
CalidadMinima == 3
CalidadMaxima == 12

\* the inputs of a call of visitar_flor: those of the run made for it, or what the
\* hive of a run holds. calidad is calidad_flores in tenths, azar is the draw of
\* random.uniform(1, capacidad_polen) in tenths
Calidades ==
    IF escenario.tipo = "flor" THEN {escenario.calidad}
    ELSE CalidadMinima..CalidadMaxima
Capacidad == IF escenario.tipo = "flor" THEN escenario.capacidad_polen ELSE CapacidadPolen
Azares == IF escenario.tipo = "flor" THEN {escenario.azar} ELSE 10..(10 * Capacidad)

\* the visit that does not look at event_dia
visitar_flor_sin_noche(es_dia, calidad, azar, capacidad) ==
    Max(0, Min(Redondear(azar * calidad, 100), capacidad))
\* Colmena.visitar_flor, the value returned: 0 at night; else
\* max(0, min(round(random.uniform(1, capacidad_polen) * calidad), capacidad_polen))
visitar_flor(es_dia, calidad, azar, capacidad) ==
    IF ~ es_dia THEN 0
    ELSE Max(0, Min(Redondear(azar * calidad, 100), capacidad))

\* polen = self.colmena.visitar_flor(self.id_abeja), up to the statistics; at
\* night it has returned and `if polen > 0` decides
visitar_flor_dia(t) ==
    /\ pc[t] = "ciclo" /\ clase[t] = "recolectora"
    /\ \E calidad \in Calidades, azar \in Azares :
          /\ loc' = [loc EXCEPT ![t] = visitar_flor(event_dia, calidad, azar, Capacidad)]
          /\ pc' = [pc EXCEPT ![t] =
                       IF event_dia THEN "flor_estadisticas"
                       ELSE IF loc'[t] > 0 THEN "cola_nectar" ELSE "vida"]
    /\ UNCHANGED <<colmenaVars, clase, ret, pendientes, otrasVars>>

\* with self.lock_estadisticas: flores_visitadas += 1; return; if polen > 0
visitar_flor_estadisticas(t) ==
    /\ pc[t] = "flor_estadisticas"
    /\ locks["lock_estadisticas"] = Libre
    /\ contador_global' = [contador_global EXCEPT !.flores_visitadas = @ + 1]
    /\ pc' = [pc EXCEPT ![t] = IF loc[t] > 0 THEN "cola_nectar" ELSE "vida"]
    /\ UNCHANGED <<celdasVars, locks, clase, loc, ret, pendientes, otrasVars>>

\* Colmena.agregar_nectar_cola: self.queue_nectar.put((cantidad, id_abeja))
agregar_nectar_cola_put(t) ==
    /\ pc[t] = "cola_nectar"
    /\ queue_nectar' = Append(queue_nectar, [cantidad |-> loc[t], id |-> t])
    /\ pc' = [pc EXCEPT ![t] = "cola_estadisticas"]
    /\ UNCHANGED <<colmenaVars, clase, loc, ret, pendientes, escenario, estadVars, censoVars,
                   reinaVars, eventVars, queue_reina, intentos, fin_al_salir, rol_ciclo, puerta, eventos>>

\* with self.lock_estadisticas: nectar_recolectado += cantidad
agregar_nectar_cola_estadisticas(t) ==
    /\ pc[t] = "cola_estadisticas"
    /\ locks["lock_estadisticas"] = Libre
    /\ contador_global' = [contador_global EXCEPT !.nectar_recolectado = @ + loc[t]]
    /\ loc' = [loc EXCEPT ![t] = 0]
    /\ pc' = [pc EXCEPT ![t] = "vida"]
    /\ UNCHANGED <<celdasVars, locks, clase, ret, pendientes, otrasVars>>

\* ------------------------------------------------ Almacenadora.trabajar
UmbralInactiva == 10
UmbralSinAlimento == 5

\* the Reina told one try early; the counter that is never put back to 0
SuperaUmbral_antes(n, umbral) == n + 1 >= umbral
TrasIntento_sigue(n, umbral) == n + 1

\* the counter after one more try without result, and whether the Reina is told
SuperaUmbral(n, umbral) == n + 1 > umbral
TrasIntento(n, umbral) == IF SuperaUmbral(n, umbral) THEN 0 ELSE n + 1

\* resultado = self.colmena.obtener_nectar_cola(): the head of the queue, which
\* loc keeps for almacenar_nectar; or None, and one more of intentos_vacios
Almacenadora_obtener(t) ==
    /\ pc[t] = "ciclo" /\ clase[t] = "almacenadora"
    /\ ret[t] = "None" /\ loc[t] = 0
    /\ IF queue_nectar # << >>
          THEN /\ loc' = [loc EXCEPT ![t] = Head(queue_nectar).cantidad]
               /\ queue_nectar' = Tail(queue_nectar)
               /\ UNCHANGED <<pc, intentos, queue_reina>>
          ELSE /\ intentos' = [intentos EXCEPT ![t] = TrasIntento(@, UmbralInactiva)]
               /\ queue_reina' =
                     IF SuperaUmbral(intentos[t], UmbralInactiva)
                        THEN Append(queue_reina,
                                    [tipo |-> "inactiva", rol |-> rol[t], id |-> t,
                                     intentos |-> intentos[t] + 1])
                        ELSE queue_reina
               /\ pc' = [pc EXCEPT ![t] = "vida"]
               /\ UNCHANGED <<loc, queue_nectar>>
    /\ UNCHANGED <<colmenaVars, clase, ret, pendientes, escenario, estadVars, censoVars,
                   reinaVars, eventVars, fin_al_salir, rol_ciclo, puerta, eventos>>

\* self.colmena.almacenar_nectar(cantidad, self.id_abeja)
Almacenadora_almacenar(t) ==
    /\ ret[t] = "None" /\ loc[t] > 0
    /\ almacenar_nectar_semaforo(t, loc[t])
    /\ UNCHANGED pendientes

\* self.intentos_vacios = 0, whatever almacenar_nectar returned
Almacenadora_fin(t) ==
    /\ pc[t] = "ciclo" /\ clase[t] = "almacenadora"
    /\ ret[t] # "None"
    /\ intentos' = [intentos EXCEPT ![t] = 0]
    /\ loc' = [loc EXCEPT ![t] = 0]
    /\ ret' = [ret EXCEPT ![t] = "None"]
    /\ pc' = [pc EXCEPT ![t] = "vida"]
    /\ UNCHANGED <<colmenaVars, clase, pendientes, escenario, estadVars, censoVars, reinaVars,
                   eventVars, colaVars, fin_al_salir, rol_ciclo, puerta, eventos>>

\* ----------------------------------------------------- Nodriza.trabajar
\* if self.colmena.alimentar_larva(self.id_abeja)
Nodriza_alimentar(t) ==
    /\ ret[t] = "None"
    /\ consumir_nectar_celdas(t)
    /\ UNCHANGED pendientes

\* intentos_sin_alimento is 0 after a larva was fed; else it counts one more and,
\* above 5, the Reina is told and it is 0 again
Nodriza_fin(t) ==
    /\ pc[t] = "ciclo" /\ clase[t] = "nodriza"
    /\ ret[t] # "None"
    /\ IF ret[t] = "True"
          THEN /\ intentos' = [intentos EXCEPT ![t] = 0]
               /\ queue_reina' = queue_reina
          ELSE /\ intentos' = [intentos EXCEPT ![t] = TrasIntento(@, UmbralSinAlimento)]
               /\ queue_reina' =
                     IF SuperaUmbral(intentos[t], UmbralSinAlimento)
                        THEN Append(queue_reina,
                                    [tipo |-> "falta_alimento", rol |-> rol[t], id |-> t])
                        ELSE queue_reina
    /\ ret' = [ret EXCEPT ![t] = "None"]
    /\ pc' = [pc EXCEPT ![t] = "vida"]
    /\ UNCHANGED <<colmenaVars, clase, loc, pendientes, escenario, estadVars, censoVars, reinaVars,
                   eventVars, queue_nectar, fin_al_salir, rol_ciclo, puerta, eventos>>

\* --------------------------------------------------- Defensora.trabajar
\* if self.colmena.event_ataque.is_set(): on to neutralizar_ataque; else the patrol
Defensora_trabajar(t) ==
    /\ pc[t] = "ciclo" /\ clase[t] = "defensora"
    /\ pc' = [pc EXCEPT ![t] = IF event_ataque THEN "neutralizar" ELSE "vida"]
    /\ UNCHANGED <<colmenaVars, clase, loc, ret, pendientes, otrasVars>>

\* ------------------------------------------------------- Reina.trabajar
\* mensaje.get(k)
Campo(mensaje, k) == IF k \in DOMAIN mensaje THEN mensaje[k] ELSE "None"

\* the ids are given in the order of construction
NuevoId == 1 + CHOOSE n \in DOMAIN pc : \A m \in DOMAIN pc : m <= n

\* del self.abejas_activas[id_abeja], if it is there
SinAbeja(id_abeja) == SelectSeq(abejas_activas, LAMBDA a : a # id_abeja)

EstaActiva(id_abeja) == \E i \in DOMAIN abejas_activas : abejas_activas[i] = id_abeja

\* the census that does not count the new bee
registrar_abeja_sin_contar(censo, r) == censo

\* Colmena.registrar_abeja: self.abejas_por_rol[rol] += 1
registrar_abeja(censo, r) == [censo EXCEPT ![r] = @ + 1]

\* Reina.crear_abeja(rol) after the dead one was taken out: Abeja.__init__ counts
\* the new bee in the census, agregar_abeja registers it, start() runs it
crear_abeja(t, r, id_muerta) ==
    LET nueva == NuevoId
    IN /\ abejas_por_rol' = registrar_abeja(abejas_por_rol, r)
       /\ rol' = rol @@ (nueva :> r)
       /\ clase' = clase @@ (nueva :> r)
       /\ intentos' = intentos @@ (nueva :> 0)
       /\ fin_al_salir' = fin_al_salir @@ (nueva :> "None")
       /\ rol_ciclo' = rol_ciclo @@ (nueva :> r)
       /\ puerta' = puerta @@ (nueva :> SinPuerta)
       /\ loc' = loc @@ (nueva :> 0)
       /\ ret' = ret @@ (nueva :> "None")
       /\ abejas_activas' = Append(SinAbeja(id_muerta), nueva)
       /\ pc' = [pc EXCEPT ![t] = "reina_roles"] @@ (nueva :> "vida")

\* the production taken as begun whatever the counter says
HayProduccion_siempre(contador) == TRUE
\* if self.colmena.contador_global["nectar_recolectado"] > 0
HayProduccion(contador) == contador.nectar_recolectado > 0

\* the message read and left in the queue
TrasObtener_deja(cola) == cola

\* Colmena.obtener_mensaje_reina: self.queue_reina.get(...) takes the first
\* message out
TrasObtener(cola) == Tail(cola)

\* Reina.procesar_mensaje
procesar_mensaje(t, mensaje) ==
    LET tipo == Campo(mensaje, "tipo")
        id_abeja == Campo(mensaje, "id")
        rol_m == Campo(mensaje, "rol")
    IN CASE tipo = "muerte" ->
              /\ queue_reina' = TrasObtener(queue_reina)
              /\ contador_global' = contador_global
              /\ IF rol_m \in RolesObrera
                    THEN crear_abeja(t, rol_m, id_abeja)
                    ELSE /\ abejas_activas' = SinAbeja(id_abeja)
                         /\ pc' = [pc EXCEPT ![t] = "reina_roles"]
                         /\ UNCHANGED <<rol, abejas_por_rol, clase, intentos,
                                        fin_al_salir, rol_ciclo, puerta, loc, ret>>
         [] tipo = "inactiva" /\ rol_m = "almacenadora" ->
              /\ queue_reina' = TrasObtener(queue_reina)
              /\ IF HayProduccion(contador_global) /\ EstaActiva(id_abeja)
                    THEN cambiar_rol(id_abeja, "recolectora")
                    ELSE UNCHANGED <<rol, abejas_por_rol, contador_global>>
              /\ pc' = [pc EXCEPT ![t] = "reina_roles"]
              /\ UNCHANGED <<abejas_activas, clase, intentos, fin_al_salir, rol_ciclo, puerta, loc, ret>>
         [] tipo = "falta_alimento" /\ rol_m = "nodriza" ->
              /\ queue_reina' = Append(TrasObtener(queue_reina), [tipo |-> "necesidad_nectar"])
              /\ pc' = [pc EXCEPT ![t] = "reina_roles"]
              /\ UNCHANGED <<rol, abejas_por_rol, contador_global, abejas_activas,
                             clase, intentos, fin_al_salir, rol_ciclo, puerta, loc, ret>>
         [] OTHER ->
              /\ queue_reina' = TrasObtener(queue_reina)
              /\ pc' = [pc EXCEPT ![t] = "reina_roles"]
              /\ UNCHANGED <<rol, abejas_por_rol, contador_global, abejas_activas,
                             clase, intentos, fin_al_salir, rol_ciclo, puerta, loc, ret>>

\* mensaje = self.colmena.obtener_mensaje_reina(timeout=0.1)
\* if mensaje: self.procesar_mensaje(mensaje)
Reina_mensaje(t) ==
    /\ pc[t] = "reina_mensaje"
    /\ IF queue_reina = << >>
          THEN /\ pc' = [pc EXCEPT ![t] = "reina_roles"]
               /\ UNCHANGED <<queue_reina, rol, abejas_por_rol, contador_global,
                              abejas_activas, clase, intentos, fin_al_salir, rol_ciclo, puerta, loc, ret>>
          ELSE procesar_mensaje(t, Head(queue_reina))
    /\ UNCHANGED <<celdasVars, locks, pendientes, escenario, estadVars, equilibrio_ideal,
                   eventVars, queue_nectar, eventos>>

\* if random.random() < 0.2: self.reasignar_roles()
Reina_roles(t) ==
    /\ pc[t] = "reina_roles"
    /\ \/ UNCHANGED <<rol, abejas_por_rol, contador_global>>
       \/ /\ contador_global.cambios_rol < MaxCambios
          /\ \E retorno \in {"True", "False"} : reasignar_roles(retorno)
    /\ pc' = [pc EXCEPT ![t] = "ciclo"]
    /\ UNCHANGED <<celdasVars, locks, clase, loc, ret, pendientes, escenario, estadVars, reinaVars,
                   vidaVars>>

\* if random.random() < 0.1: metricas = self.colmena.obtener_metricas()
Reina_metricas(t) ==
    /\ clase[t] = "reina"
    /\ obtener_metricas_estadisticas(t)
    /\ UNCHANGED pendientes

Reina_sin_metricas(t) ==
    /\ pc[t] = "ciclo" /\ clase[t] = "reina"
    /\ pc' = [pc EXCEPT ![t] = "vida"]
    /\ UNCHANGED <<colmenaVars, clase, loc, ret, pendientes, otrasVars>>

\* ----------------------------------------------------------- eventos.py
\* GestorEventos.run: time.sleep(self.tiempo_simulacion); event_fin_simulacion.set()
GestorEventos_run ==
    /\ eventos.gestor = "espera"
    /\ event_fin_simulacion' = TRUE
    /\ eventos' = [eventos EXCEPT !.gestor = "fin"]
    /\ UNCHANGED <<colmenaVars, hiloVars, pendientes, escenario, estadVars, censoVars, reinaVars,
                   event_dia, event_ataque, colaVars, intentos, fin_al_salir, rol_ciclo, puerta>>

\* EventoDiaNoche.run, one round of its loop: after the sleep, unless the end was
\* signalled, es_dia = not es_dia; self.colmena.cambiar_ciclo_dia(es_dia)
EventoDiaNoche_run ==
    /\ eventos.dia_noche = "duerme"
    /\ IF event_fin_simulacion
          THEN /\ eventos' = [eventos EXCEPT !.dia_noche = "fin"]
               /\ event_dia' = event_dia
          ELSE /\ eventos' = eventos
               /\ event_dia' = ~ event_dia
    /\ UNCHANGED <<colmenaVars, hiloVars, pendientes, escenario, estadVars, censoVars, reinaVars,
                   event_fin_simulacion, event_ataque, colaVars, intentos, fin_al_salir, rol_ciclo, puerta>>

\* ------------------------------------------------- the run of the hive
\* A Colmena in which main stored ocupadas cells and queued encolado amounts
\* before it started the Reina, the workers of the classes given and GestorEventos
ColmenaEnMarcha(tipo, clases, ocupadas, encolado) ==
    LET n == Len(clases)
        obreras == PrimeraObrera..(PrimeraObrera + n - 1)
        abejas == {IdReina} \cup obreras
        claseDe == [a \in abejas |-> IF a = IdReina THEN "reina"
                                     ELSE clases[a - PrimeraObrera + 1]]
    IN /\ capacidad_celdas = MaxCeldas
       /\ num_larvas = MaxLarvas
       /\ celdas_ocupadas = ocupadas
       /\ semaforo_celdas = MaxCeldas - ocupadas
       /\ larvas_alimentadas = 0
       /\ contador_global = [ContadorInicial EXCEPT !.nectar_almacenado = ocupadas,
                                                    !.nectar_recolectado = encolado]
       /\ locks = [l \in LockNames |-> Libre]
       /\ clase = claseDe
       /\ rol = claseDe
       /\ abejas_por_rol = CensoDe(abejas, claseDe)
       /\ abejas_activas = EnOrden(obreras)
       /\ equilibrio_ideal = EquilibrioPorDefecto
       /\ event_fin_simulacion = FALSE
       /\ event_dia = TRUE
       /\ event_ataque = FALSE
       /\ queue_reina = << >>
       /\ queue_nectar = [i \in 1..encolado |-> [cantidad |-> 1, id |-> 0]]
       /\ intentos = [a \in abejas |-> 0]
       /\ fin_al_salir = [a \in abejas |-> "None"]
       /\ rol_ciclo = claseDe
       /\ puerta = [t \in DOMAIN rol_ciclo |-> SinPuerta]
       /\ eventos = EventosInit
       /\ pc = [a \in abejas |-> "vida"]
       /\ loc = [a \in abejas |-> 0]
       /\ ret = [a \in abejas |-> "None"]
       /\ pendientes = [a \in abejas |-> 0]
       /\ nectar_consumido = SinEstadisticas
       /\ escenario = [tipo |-> tipo, llamadores |-> n, libres |-> MaxCeldas - ocupadas]

InitVida ==
    \E n \in 1..MaxObreras :
      \E clases \in [1..n -> RolesObrera], ocupadas \in 0..MaxCeldas,
         encolado \in 0..MaxEncolado :
           ColmenaEnMarcha("vida", clases, ocupadas, encolado)

NextVida ==
    \/ \E t \in DOMAIN pc : run_while(t)
    \/ \E t \in DOMAIN pc : run_dia(t)
    \/ \E t \in DOMAIN pc : run_finally(t)
    \/ \E t \in DOMAIN pc : run_enviar_muerte(t)
    \/ \E t \in DOMAIN pc : visitar_flor_dia(t)
    \/ \E t \in DOMAIN pc : visitar_flor_estadisticas(t)
    \/ \E t \in DOMAIN pc : agregar_nectar_cola_put(t)
    \/ \E t \in DOMAIN pc : agregar_nectar_cola_estadisticas(t)
    \/ \E t \in DOMAIN pc : Almacenadora_obtener(t)
    \/ \E t \in DOMAIN pc : Almacenadora_almacenar(t)
    \/ \E t \in DOMAIN pc : almacenar_nectar_celdas(t)
    \/ \E t \in DOMAIN pc : almacenar_nectar_estadisticas(t)
    \/ \E t \in DOMAIN pc : Almacenadora_fin(t)
    \/ \E t \in DOMAIN pc : Nodriza_alimentar(t)
    \/ \E t \in DOMAIN pc : consumir_nectar_estadisticas(t)
    \/ \E t \in DOMAIN pc : consumir_nectar_return(t)
    \/ \E t \in DOMAIN pc : alimentar_larva_larvas(t)
    \/ \E t \in DOMAIN pc : alimentar_larva_estadisticas(t)
    \/ \E t \in DOMAIN pc : alimentar_larva_return(t)
    \/ \E t \in DOMAIN pc : Nodriza_fin(t)
    \/ \E t \in DOMAIN pc : Defensora_trabajar(t)
    \/ \E t \in DOMAIN pc : Reina_mensaje(t)
    \/ \E t \in DOMAIN pc : Reina_roles(t)
    \/ \E t \in DOMAIN pc : Reina_metricas(t)
    \/ \E t \in DOMAIN pc : obtener_metricas_celdas(t)
    \/ \E t \in DOMAIN pc : obtener_metricas_return(t)
    \/ \E t \in DOMAIN pc : Reina_sin_metricas(t)
    \/ GestorEventos_run
    \/ EventoDiaNoche_run

SpecVida == InitVida /\ [][NextVida]_vars

\* ------------------------------------------------ the end of the run
\* A run whose bees all outlive it (tiempo_vida > tiempo_simulacion): the Reina
\* and Nodrizas, in a Colmena with nectar in its cells
InitParada ==
    \E n \in 1..MaxObreras, ocupadas \in 1..MaxCeldas :
        ColmenaEnMarcha("parada", [i \in 1..n |-> "nodriza"], ocupadas, 0)

NextParada ==
    \/ \E t \in DOMAIN pc : run_while(t)
    \/ \E t \in DOMAIN pc : run_dia(t)
    \/ \E t \in DOMAIN pc : run_finally(t)
    \/ \E t \in DOMAIN pc : Nodriza_alimentar(t)
    \/ \E t \in DOMAIN pc : consumir_nectar_estadisticas(t)
    \/ \E t \in DOMAIN pc : consumir_nectar_return(t)
    \/ \E t \in DOMAIN pc : alimentar_larva_larvas(t)
    \/ \E t \in DOMAIN pc : alimentar_larva_estadisticas(t)
    \/ \E t \in DOMAIN pc : alimentar_larva_return(t)
    \/ \E t \in DOMAIN pc : Nodriza_fin(t)
    \/ \E t \in DOMAIN pc : Reina_mensaje(t)
    \/ \E t \in DOMAIN pc : Reina_roles(t)
    \/ \E t \in DOMAIN pc : Reina_metricas(t)
    \/ \E t \in DOMAIN pc : obtener_metricas_celdas(t)
    \/ \E t \in DOMAIN pc : obtener_metricas_return(t)
    \/ \E t \in DOMAIN pc : Reina_sin_metricas(t)
    \/ GestorEventos_run
    \/ EventoDiaNoche_run

\* the threads are scheduled: while some thread can take a step, a step is taken
\* (once event_fin_simulacion is set no thread goes round a loop again, so that
\* a run stops only where no thread can take a step)
Justicia == WF_vars(NextParada)

SpecParada == InitParada /\ [][NextParada]_vars /\ Justicia

\* the deviation of a role in the present census
DiferenciaDe(r) ==
    Diferencia(abejas_por_rol[r],
               calcular_roles_ideales(TotalAbejas(abejas_por_rol))[r])

Lugar(r) == CHOOSE i \in DOMAIN OrdenRoles : OrdenRoles[i] = r

\* r has the greatest deviation, and is the first such role of the table
EsExcedente(r) ==
    \A q \in RolesObrera :
        /\ ~ Mayor(DiferenciaDe(q), DiferenciaDe(r))
        /\ Lugar(q) < Lugar(r) => Mayor(DiferenciaDe(r), DiferenciaDe(q))

\* r has the least deviation, and is the first such role of the table
EsDeficiente(r) ==
    \A q \in RolesObrera :
        /\ ~ Mayor(DiferenciaDe(r), DiferenciaDe(q))
        /\ Lugar(q) < Lugar(r) => Mayor(DiferenciaDe(q), DiferenciaDe(r))

CensoEscenarioC ==
    [r \in Roles |->
        CASE r = "recolectora" -> 4
          [] r = "almacenadora" -> 1
          [] r = "nodriza" -> 1
          [] r = "defensora" -> 1
          [] r = "reina" -> 1]

CensoTrasEscenarioC ==
    [CensoEscenarioC EXCEPT !["recolectora"] = 3, !["almacenadora"] = 2]

\* ------------------------------------------------------------------ C9
\* C9: when reasignar_roles runs with the greatest deviation above 0.1 and the
\* least below -0.1 and a bee of abejas_activas carries the surplus role, exactly
\* one bee goes from the surplus role to the deficit role: the census of the
\* surplus role falls by 1, that of the deficit role rises by 1, every other
\* count stays; census {4, 1, 1, 1} under {0.4, 0.25, 0.25, 0.1} becomes {3, 2, 1, 1}
ReasignaUnaAbeja ==
    [][ /\ \A e \in RolesObrera, d \in RolesObrera :
              ( /\ EsExcedente(e) /\ SobreUmbral(DiferenciaDe(e))
                /\ EsDeficiente(d) /\ BajoUmbral(DiferenciaDe(d))
                /\ ConRol(e) # {} )
              => /\ abejas_por_rol'[e] = abejas_por_rol[e] - 1
                 /\ abejas_por_rol'[d] = abejas_por_rol[d] + 1
                 /\ \A r \in Roles \ {e, d} : abejas_por_rol'[r] = abejas_por_rol[r]
                 /\ \E i \in DOMAIN abejas_activas :
                      LET a == abejas_activas[i]
                      IN /\ rol[a] = e /\ rol'[a] = d
                         /\ \A b \in DOMAIN rol \ {a} : rol'[b] = rol[b]
        /\ ( /\ abejas_por_rol = CensoEscenarioC
             /\ equilibrio_ideal = EquilibrioPorDefecto
             /\ ConRol("recolectora") # {} )
           => abejas_por_rol' = CensoTrasEscenarioC
      ]_vars

\* the scenario's hive after its one change: the first recolectora of
\* abejas_activas is an almacenadora now
EscenarioCReasignado ==
    /\ Len(abejas_activas) = 7
    /\ equilibrio_ideal = EquilibrioPorDefecto
    /\ abejas_por_rol = CensoTrasEscenarioC
    /\ rol[abejas_activas[1]] = "almacenadora"
    /\ clase[abejas_activas[1]] = "recolectora"
    /\ contador_global.cambios_rol = 1
    /\ ret[IdReina] = "True"

\* ----------------------------------------------------------------- C10
\* no role's deviation is above 0.1 or below -0.1
SinDesviacion ==
    \A r \in RolesObrera :
        ~ SobreUmbral(DiferenciaDe(r)) /\ ~ BajoUmbral(DiferenciaDe(r))

\* C10: reasignar_roles called while no role's deviation from its ideal count
\* exceeds +/-0.1 leaves the census, the role of every bee and cambios_rol as they
\* were, whatever the census and the ratio table
SinDesviacionNoCambia ==
    [][ SinDesviacion =>
          /\ abejas_por_rol' = abejas_por_rol
          /\ rol' = rol
          /\ contador_global'.cambios_rol = contador_global.cambios_rol
      ]_vars

\* a hive brought into balance by an earlier change, where a further call has
\* returned False
EquilibradaTrasCambio ==
    /\ SinDesviacion
    /\ contador_global.cambios_rol >= 1
    /\ ConRol("recolectora") # {}
    /\ Len(abejas_activas) >= 3
    /\ ret[IdReina] = "False"

\* ------------------------------------------------------------------ C1
\* C1: in every reachable state, under every interleaving of almacenar_nectar
\* and alimentar_larva/consumir_nectar calls, 0 <= celdas_ocupadas <= capacidad_celdas
CeldasDentroDeCapacidad ==
    /\ 0 <= celdas_ocupadas
    /\ celdas_ocupadas <= capacidad_celdas

\* the pool is full after nectar was consumed and stored again, and a caller of
\* almacenar_nectar has been turned away
CeldasLlenasConRechazo ==
    /\ capacidad_celdas > 0
    /\ celdas_ocupadas = capacidad_celdas
    /\ contador_global.nectar_almacenado > capacidad_celdas
    /\ \E t \in Almacenadoras : ret[t] = "False"
    /\ \E t \in Nodrizas : ret[t] = "True"

Vivas == {t \in DOMAIN pc : pc[t] # "muerta"}

\* C4: in every reachable state the counts of the census add up to the number of
\* agents alive, also after agents died and after replacements were created
CensoCuentaVivas == TotalAbejas(abejas_por_rol) = Cardinality(Vivas)

\* ------------------------------------------------------------------ C7
MuertesEnCola(t) ==
    {i \in DOMAIN queue_reina : queue_reina[i].tipo = "muerte" /\ queue_reina[i].id = t}

\* C7: a bee that left its loop when event_fin_simulacion was set puts no death
\* message into queue_reina: every death message comes from a bee that left its
\* loop before the event was set
MuerteSoloSinFin ==
    /\ \A t \in DOMAIN pc :
          fin_al_salir[t] = "True" => pc[t] # "enviar_muerte" /\ MuertesEnCola(t) = {}
    /\ \A i \in DOMAIN queue_reina :
          queue_reina[i].tipo = "muerte" => fin_al_salir[queue_reina[i].id] = "False"

\* a worker died of age and reported it, another bee left at the end of the run
\* and died in silence
MuerteAnunciadaYMuerteCallada ==
    \E t \in DOMAIN pc, u \in DOMAIN pc :
        /\ pc[t] = "muerta" /\ fin_al_salir[t] = "True"
        /\ pc[u] = "muerta" /\ fin_al_salir[u] = "False" /\ MuertesEnCola(u) # {}

\* ------------------------------------------------------------------ C8
TodasMuertas == \A t \in DOMAIN pc : pc[t] = "muerta"

\* C8: event_fin_simulacion is never cleared, and once it is set every bee, the
\* replacements and the Reina too, is dead at some later time
ParadaAlcanzaATodas ==
    /\ [][event_fin_simulacion => event_fin_simulacion']_vars
    /\ event_fin_simulacion ~> TodasMuertas

\* ------------------------------------------------------------------ C5
\* C5: no Colmena operation holds more than one of the locks at a time: in every
\* reachable state each thread holds at most one lock
UnLockPorHilo == \A t \in DOMAIN pc : Cardinality(LocksDe(t)) <= 1

\* ------------------------------------------------------------------ C6
\* the lock a thread must acquire to take its next step
LockQueEspera(t) ==
    CASE pc[t] = "alm_celdas" -> "lock_celdas"
      [] pc[t] = "alm_estadisticas" -> "lock_estadisticas"
      [] pc[t] = "con_estadisticas" -> "lock_estadisticas"
      [] pc[t] = "ali_larvas" -> "lock_larvas"
      [] pc[t] = "ali_estadisticas" -> "lock_estadisticas"
      [] pc[t] = "met_celdas" -> "lock_celdas"
      [] OTHER -> "ninguno"

Bloqueado(t) ==
    /\ LockQueEspera(t) \in LockNames
    /\ locks[LockQueEspera(t)] # Libre

\* C6: no reachable state has a set of threads each blocked on a lock that is
\* held by another thread of the set
SinInterbloqueo ==
    ~ \E S \in SUBSET (DOMAIN pc) :
        /\ S # {}
        /\ \A t \in S : Bloqueado(t) /\ locks[LockQueEspera(t)] \in S \ {t}

\* ----------------------------------------------------------------- C11
\* the Reina takes the death of a bee of abejas_activas out of queue_reina
MuerteDespachada ==
    /\ pc[IdReina] = "reina_mensaje"
    /\ pc'[IdReina] = "reina_roles"
    /\ queue_reina # << >>
    /\ Head(queue_reina).tipo = "muerte"
    /\ EstaActiva(Head(queue_reina).id)

\* the dead bee is out of abejas_activas, a new bee of its role is in, and
\* abejas_activas is as long as it was
ReemplazadaEnRegistro ==
    LET m == Head(queue_reina)
    IN /\ Len(abejas_activas') = Len(abejas_activas)
       /\ \A i \in DOMAIN abejas_activas' : abejas_activas'[i] # m.id
       /\ \E i \in DOMAIN abejas_activas' :
             /\ abejas_activas'[i] \notin DOMAIN pc
             /\ rol'[abejas_activas'[i]] = m.rol
             /\ pc'[abejas_activas'[i]] = "vida"

\* C11: when the Reina processes the message "muerte" of a bee of abejas_activas,
\* abejas_activas holds as many bees afterwards (the dead one out, a replacement
\* of the same role in) and the census of that role is what it was before the
\* bee died
MuerteConservaRegistroYCenso ==
    [][ MuerteDespachada =>
          /\ ReemplazadaEnRegistro
          /\ abejas_por_rol'[Head(queue_reina).rol] = abejas_por_rol[Head(queue_reina).rol]
      ]_vars

\* ------------------------------------------- alimentar_larva on its own
\* A Colmena in which ocupadas cells were stored before and no larva was fed
ColmenaConNectar(cap, ocupadas, larvas) ==
    /\ capacidad_celdas = cap
    /\ num_larvas = larvas
    /\ celdas_ocupadas = ocupadas
    /\ semaforo_celdas = cap - ocupadas
    /\ larvas_alimentadas = 0
    /\ contador_global = [ContadorInicial EXCEPT !.nectar_almacenado = ocupadas]
    /\ locks = [l \in LockNames |-> Libre]

\* the one Nodriza of these runs
LaNodriza == PrimeraObrera

\* one caller calls alimentar_larva llamadas times in a row
InitAlimentacion(cap, ocupadas, larvas, llamadas) ==
    /\ ColmenaConNectar(cap, ocupadas, larvas)
    /\ pendientes = [t \in {LaNodriza} |-> llamadas]
    /\ nectar_consumido = SinEstadisticas
    /\ escenario = [tipo |-> "alimentacion", llamadores |-> 1, libres |-> cap - ocupadas,
                    llamadas |-> llamadas]

InitLarvas ==
    /\ \/ \E ocupadas \in 0..MaxReserva, larvas \in 0..MaxReserva, llamadas \in 1..MaxLlamadas :
            InitAlimentacion(MaxReserva, ocupadas, larvas, llamadas)
       \/ InitAlimentacion(5, 5, 3, 5)
    /\ clase = [t \in {LaNodriza} |-> "nodriza"]
    /\ pc = [t \in {LaNodriza} |-> "ciclo"]
    /\ loc = [t \in {LaNodriza} |-> 0]
    /\ ret = [t \in {LaNodriza} |-> "None"]
    /\ AbejasDeHilos({LaNodriza}, clase)

NextLarvas ==
    \/ \E t \in DOMAIN pc : LlamarAlimentarLarva(t)
    \/ \E t \in DOMAIN pc : consumir_nectar_estadisticas(t)
    \/ \E t \in DOMAIN pc : consumir_nectar_return(t)
    \/ \E t \in DOMAIN pc : alimentar_larva_larvas(t)
    \/ \E t \in DOMAIN pc : alimentar_larva_estadisticas(t)
    \/ \E t \in DOMAIN pc : alimentar_larva_return(t)

SpecLarvas == InitLarvas /\ [][NextLarvas]_vars

\* the calls of the run that have been made, and the cells that held nectar at
\* its start
LlamadasHechas == escenario.llamadas - pendientes[LaNodriza]
CeldasAlEmpezar == capacidad_celdas - escenario.libres

\* celdas_ocupadas and larvas_alimentadas as the k-th call of the run finds them:
\* every earlier call took a cell while there was one, and fed a larva while
\* there was a cell and a larva left
CeldasAlLlamar(k) == Max(CeldasAlEmpezar - (k - 1), 0)
AlimentadasAlLlamar(k) == Min(k - 1, Min(CeldasAlEmpezar, num_larvas))

\* the caller is between two calls
EntreLlamadas == escenario.tipo = "alimentacion" /\ pc[LaNodriza] = "ciclo"

\* ----------------------------------------------------------------- C12
\* C12: a call of alimentar_larva made on its own returns True if and only if,
\* at the call, celdas_ocupadas > 0 and larvas_alimentadas < num_larvas (between
\* two calls the hive is as the next call finds it); with num_larvas = 3 and
\* nectar in the cells for each of 5 calls in a row, the first 3 return True, the
\* last 2 return False and larvas_alimentadas ends at 3
AlimentaSiHayNectarYLarva ==
    EntreLlamadas =>
       LET k == LlamadasHechas
       IN /\ celdas_ocupadas = CeldasAlLlamar(k + 1)
          /\ larvas_alimentadas = AlimentadasAlLlamar(k + 1)
          /\ k >= 1 =>
                /\ ret[LaNodriza] \in {"True", "False"}
                /\ ret[LaNodriza] = "True" <=>
                      (CeldasAlLlamar(k) > 0 /\ AlimentadasAlLlamar(k) < num_larvas)
          /\ (k >= 1 /\ CeldasAlEmpezar = 5 /\ num_larvas = 3 /\ escenario.llamadas = 5) =>
                /\ ret[LaNodriza] = (IF k <= 3 THEN "True" ELSE "False")
                /\ k = 5 => larvas_alimentadas = 3

\* the 5 calls on 3 larvas are over: the last one found nectar and no larva left
CincoLlamadasTresLarvas ==
    /\ EntreLlamadas
    /\ escenario.llamadas = 5 /\ pendientes[LaNodriza] = 0
    /\ CeldasAlEmpezar = 5 /\ num_larvas = 3
    /\ larvas_alimentadas = 3
    /\ contador_global.larvas_alimentadas = 3
    /\ ret[LaNodriza] = "False"

\* ----------------------------------------------------------------- C13
\* C13: alimentar_larva checks the cells and larvas_alimentadas < num_larvas in
\* one critical section: a call that returns False leaves celdas_ocupadas and
\* larvas_alimentadas as they were, and every cell that alimentar_larva empties
\* goes with a larva fed
AlimentarEsAtomico ==
    EntreLlamadas =>
       LET k == LlamadasHechas
       IN /\ CeldasAlEmpezar - celdas_ocupadas = larvas_alimentadas
          /\ (k >= 1 /\ ret[LaNodriza] = "False") =>
                /\ celdas_ocupadas = CeldasAlLlamar(k)
                /\ larvas_alimentadas = AlimentadasAlLlamar(k)

\* ----------------------------------------------------------------- C14
\* a call of Abeja.cambiar_rol is made in this step
HayCambioDeRol == contador_global'.cambios_rol # contador_global.cambios_rol

\* what the call does to the bee a that goes to the role nuevo
CambiaCensoYRol(a, nuevo) ==
    /\ rol' = [rol EXCEPT ![a] = nuevo]
    /\ abejas_por_rol' = [abejas_por_rol EXCEPT ![rol[a]] = @ - 1, ![nuevo] = @ + 1]
    /\ TotalAbejas(abejas_por_rol') = TotalAbejas(abejas_por_rol)
    /\ contador_global'.cambios_rol = contador_global.cambios_rol + 1

\* the bees of abejas_activas that carry the role r after the step
RegistradasConRol(r) ==
    {i \in DOMAIN abejas_activas' : rol'[abejas_activas'[i]] = r}

\* C14: every cambiar_rol of a bee from its role to a new one takes 1 from the
\* census of the old role, adds 1 to that of the new role, leaves the sum of the
\* census as it was and adds exactly 1 to cambios_rol; after the call the bee
\* carries the new role, so that the census of each role is the number of bees
\* of abejas_activas that carry it
CambioDeRolMantieneCenso ==
    [][ HayCambioDeRol =>
          /\ \E a \in DOMAIN rol, nuevo \in RolesObrera : CambiaCensoYRol(a, nuevo)
          /\ \A r \in RolesObrera :
                abejas_por_rol'[r] = Cardinality(RegistradasConRol(r))
      ]_vars

\* ----------------------------------------------------------------- C15
\* the worker t takes a step of its work unit: of Recolectora.trabajar,
\* Almacenadora.trabajar, Nodriza.trabajar or Defensora.trabajar, as its class says
TrabajaSegunClase(t) ==
    /\ clase[t] \in RolesObrera
    /\ pc[t] = "ciclo"
    /\ \/ pc'[t] # pc[t]
       \/ loc'[t] # loc[t]
       \/ ret'[t] # ret[t]

\* C15: after the Reina called cambiar_rol on a live bee the change takes effect
\* on the bee's next round: from that round on the bee does the work unit of the
\* new role (an Almacenadora changed to "recolectora" visits flowers and takes no
\* more nectar out of queue_nectar), so that the unit a bee works on in a round is
\* that of the role it carried when the round began or of the role it carries now
TrabajoSegunRolDelCiclo ==
    [][ \A t \in DOMAIN pc :
           TrabajaSegunClase(t) => clase[t] \in {rol_ciclo[t], rol[t]}
      ]_vars

\* ------------------------------------------------- a fault in trabajar
\* the model lets trabajar raise in the runs made for it, as long as the
\* replacements the deaths bring stay within MaxReemplazos
PuedeFallar(t) ==
    /\ escenario.tipo = "falla"
    /\ Reemplazos + MuertesEnCamino < MaxReemplazos

\* self.trabajar() of a worker raises an Exception as it starts: the loop is left
\* for the except clause of run
Abeja_falla(t) ==
    /\ pc[t] = "ciclo" /\ clase[t] \in RolesObrera
    /\ ret[t] = "None" /\ loc[t] = 0
    /\ PuedeFallar(t)
    /\ pc' = [pc EXCEPT ![t] = "except"]
    /\ fin_al_salir' = [fin_al_salir EXCEPT ![t] =
                           IF event_fin_simulacion THEN "True" ELSE "False"]
    /\ intentos' = [intentos EXCEPT ![t] = 0]
    /\ UNCHANGED <<colmenaVars, clase, loc, ret, pendientes, escenario, estadVars, censoVars,
                   reinaVars, eventVars, colaVars, rol_ciclo, puerta, eventos>>

\* the except clause that ends the thread without the finally clause
run_except_sin_finally(t) ==
    /\ pc[t] = "except"
    /\ pc' = [pc EXCEPT ![t] = "muerta"]
    /\ UNCHANGED <<colmenaVars, clase, loc, ret, pendientes, otrasVars>>

\* except Exception as e: print(...)
\* finally: if not self.colmena.event_fin_simulacion.is_set()
run_except(t) ==
    /\ pc[t] = "except"
    /\ pc' = [pc EXCEPT ![t] = IF FinSenalado(event_fin_simulacion) THEN "muerta"
                               ELSE "enviar_muerte"]
    /\ UNCHANGED <<colmenaVars, clase, loc, ret, pendientes, otrasVars>>

\* A run whose bees all outlive it, the Reina and Nodrizas, in which trabajar
\* may raise
InitFalla ==
    \E n \in 1..MaxObreras, ocupadas \in 0..MaxCeldas :
        ColmenaEnMarcha("falla", [i \in 1..n |-> "nodriza"], ocupadas, 0)

NextFalla ==
    \/ \E t \in DOMAIN pc : run_while(t)
    \/ \E t \in DOMAIN pc : run_dia(t)
    \/ \E t \in DOMAIN pc : Abeja_falla(t)
    \/ \E t \in DOMAIN pc : run_except(t)
    \/ \E t \in DOMAIN pc : run_finally(t)
    \/ \E t \in DOMAIN pc : run_enviar_muerte(t)
    \/ \E t \in DOMAIN pc : Nodriza_alimentar(t)
    \/ \E t \in DOMAIN pc : consumir_nectar_estadisticas(t)
    \/ \E t \in DOMAIN pc : consumir_nectar_return(t)
    \/ \E t \in DOMAIN pc : alimentar_larva_larvas(t)
    \/ \E t \in DOMAIN pc : alimentar_larva_estadisticas(t)
    \/ \E t \in DOMAIN pc : alimentar_larva_return(t)
    \/ \E t \in DOMAIN pc : Nodriza_fin(t)
    \/ \E t \in DOMAIN pc : Reina_mensaje(t)
    \/ \E t \in DOMAIN pc : Reina_roles(t)
    \/ \E t \in DOMAIN pc : Reina_metricas(t)
    \/ \E t \in DOMAIN pc : obtener_metricas_celdas(t)
    \/ \E t \in DOMAIN pc : obtener_metricas_return(t)
    \/ \E t \in DOMAIN pc : Reina_sin_metricas(t)
    \/ GestorEventos_run
    \/ EventoDiaNoche_run

SpecFalla == InitFalla /\ [][NextFalla]_vars

\* ----------------------------------------------------------------- C16
\* trabajar of the bee t raises in this step
Falla(t) == pc[t] = "ciclo" /\ pc'[t] = "except"

\* the fault is caught and is the bee's own: no other thread is moved, no lock is
\* held or taken, the end of the run is not signalled
FallaAislada(t) ==
    /\ \A u \in DOMAIN pc \ {t} : pc'[u] = pc[u]
    /\ DOMAIN pc' = DOMAIN pc
    /\ LocksDe(t) = {}
    /\ locks' = locks
    /\ event_fin_simulacion' = event_fin_simulacion
    /\ queue_reina' = queue_reina

\* the dying bee t puts its one message into queue_reina and is dead, and no
\* message "muerte" of t comes from anywhere else
UnaMuerteAnunciada(t) ==
    /\ (pc[t] = "enviar_muerte" /\ pc'[t] # "enviar_muerte") =>
          /\ pc'[t] = "muerta"
          /\ queue_reina' = Append(queue_reina,
                                   [tipo |-> "muerte", rol |-> rol[t], id |-> t])
    /\ pc[t] = "muerta" => pc'[t] = "muerta"
    /\ Cardinality(MuertesEnCola(t)') > Cardinality(MuertesEnCola(t)) =>
          pc[t] = "enviar_muerte"

\* C16 as it stands: a fault raised in trabajar while event_fin_simulacion is not
\* set is caught, the bee dies and puts exactly one message "muerte" with its role
\* and id into queue_reina; the other bees and the Reina go on
FallaSiempreAnunciada ==
    [][ \A t \in DOMAIN pc :
           /\ Falla(t) => FallaAislada(t)
           /\ (pc[t] = "except" /\ fin_al_salir[t] = "False" /\ pc'[t] # "except") =>
                 pc'[t] = "enviar_muerte"
           /\ UnaMuerteAnunciada(t)
      ]_vars

\* C16, amended: a fault raised in trabajar is caught and the bee dies; it puts
\* exactly one message "muerte" with its role and id into queue_reina if
\* event_fin_simulacion is not set when the finally clause of run tests it, and
\* none if it is set by then; the other bees and the Reina go on
FallaAnunciadaSinFin ==
    [][ \A t \in DOMAIN pc :
           /\ Falla(t) => FallaAislada(t)
           /\ (pc[t] = "except" /\ pc'[t] # "except") =>
                 pc'[t] = (IF event_fin_simulacion THEN "muerta" ELSE "enviar_muerte")
           /\ UnaMuerteAnunciada(t)
      ]_vars

\* a bee whose trabajar raised is dead, its one message waits in queue_reina, and
\* the Reina is at work with the end of the run not signalled
FallaConMuerteEnCola ==
    /\ escenario.tipo = "falla"
    /\ ~ event_fin_simulacion
    /\ pc[IdReina] = "reina_mensaje"
    /\ \E t \in DOMAIN pc :
          /\ pc[t] = "muerta" /\ fin_al_salir[t] = "False"
          /\ Cardinality(MuertesEnCola(t)) = 1

\* ----------------------------------------------------------------- C17
\* the Reina takes a message "inactiva" of an Almacenadora out of queue_reina
InactivaDespachada ==
    /\ pc[IdReina] = "reina_mensaje"
    /\ pc'[IdReina] = "reina_roles"
    /\ queue_reina # << >>
    /\ Head(queue_reina).tipo = "inactiva"
    /\ Head(queue_reina).rol = "almacenadora"

\* C17: when the Reina processes a message "inactiva" with rol "almacenadora" she
\* changes the bee of that id to "recolectora" only if nectar_recolectado > 0 at
\* that time (and then she does, if the bee is in abejas_activas); while
\* nectar_recolectado is 0 the message changes no role, no census count and not
\* cambios_rol
InactivaCambiaSoloConProduccion ==
    [][ InactivaDespachada =>
          LET m == Head(queue_reina)
          IN /\ contador_global.nectar_recolectado = 0 =>
                   /\ rol' = rol
                   /\ abejas_por_rol' = abejas_por_rol
                   /\ contador_global'.cambios_rol = contador_global.cambios_rol
             /\ (rol' # rol \/ abejas_por_rol' # abejas_por_rol
                            \/ contador_global'.cambios_rol # contador_global.cambios_rol) =>
                   /\ contador_global.nectar_recolectado > 0
                   /\ rol' = [rol EXCEPT ![m.id] = "recolectora"]
             /\ (contador_global.nectar_recolectado > 0 /\ EstaActiva(m.id)) =>
                   /\ rol'[m.id] = "recolectora"
                   /\ contador_global'.cambios_rol = contador_global.cambios_rol + 1
      ]_vars

\* the Reina is about to process the message of an Almacenadora of abejas_activas
\* that found queue_nectar empty more than 10 times, and no nectar was ever
\* collected
InactivaSinProduccion ==
    /\ pc[IdReina] = "reina_mensaje"
    /\ queue_reina # << >>
    /\ Head(queue_reina).tipo = "inactiva"
    /\ Head(queue_reina).rol = "almacenadora"
    /\ Head(queue_reina).intentos > UmbralInactiva
    /\ EstaActiva(Head(queue_reina).id)
    /\ rol[Head(queue_reina).id] = "almacenadora"
    /\ contador_global.nectar_recolectado = 0

\* ---------------------------------------------- visitar_flor on its own
LaRecolectora == PrimeraObrera

\* one Recolectora calls visitar_flor once, by day or by night, on a hive whose
\* calidad_flores and capacidad_polen are given; azar is what random.uniform draws
InitFlor ==
    \E calidad \in (- MaxCalidad)..MaxCalidad, capacidad \in 1..MaxPolen, es_dia \in BOOLEAN :
      \E azar \in 10..(10 * capacidad) :
        /\ ColmenaInit(MaxCeldas, MaxLarvas)
        /\ nectar_consumido = SinEstadisticas
        /\ escenario = [tipo |-> "flor", llamadores |-> 1, libres |-> MaxCeldas,
                        calidad |-> calidad, capacidad_polen |-> capacidad, azar |-> azar]
        /\ event_dia = es_dia
        /\ event_fin_simulacion = FALSE
        /\ event_ataque = FALSE
        /\ queue_reina = << >>
        /\ queue_nectar = << >>
        /\ eventos = SinEventos
        /\ clase = [t \in {LaRecolectora} |-> "recolectora"]
        /\ rol = clase
        /\ rol_ciclo = clase
        /\ puerta = [t \in DOMAIN rol_ciclo |-> SinPuerta]
        /\ abejas_por_rol = CensoDe({LaRecolectora}, clase)
        /\ abejas_activas = EnOrden({LaRecolectora})
        /\ equilibrio_ideal = EquilibrioPorDefecto
        /\ intentos = [t \in {LaRecolectora} |-> 0]
        /\ fin_al_salir = [t \in {LaRecolectora} |-> "None"]
        /\ pc = [t \in {LaRecolectora} |-> "ciclo"]
        /\ loc = [t \in {LaRecolectora} |-> 0]
        /\ ret = [t \in {LaRecolectora} |-> "None"]
        /\ pendientes = [t \in {LaRecolectora} |-> 0]

NextFlor ==
    \/ \E t \in DOMAIN pc : visitar_flor_dia(t)
    \/ \E t \in DOMAIN pc : visitar_flor_estadisticas(t)
    \/ \E t \in DOMAIN pc : agregar_nectar_cola_put(t)
    \/ \E t \in DOMAIN pc : agregar_nectar_cola_estadisticas(t)

SpecFlor == InitFlor /\ [][NextFlor]_vars

\* ----------------------------------------------------------------- C18
\* C18: visitar_flor called while event_dia is not set returns 0 whatever
\* calidad_flores and capacidad_polen are: no flower is counted and the
\* Recolectora puts nothing into queue_nectar
VisitaDeNocheDaCero ==
    (escenario.tipo = "flor" /\ ~ event_dia /\ pc[LaRecolectora] # "ciclo") =>
       /\ loc[LaRecolectora] = 0
       /\ pc[LaRecolectora] = "vida"
       /\ contador_global.flores_visitadas = 0
       /\ contador_global.nectar_recolectado = 0
       /\ queue_nectar = << >>

\* the call was made by night with the best flowers and the greatest capacity,
\* and has returned
VisitaDeNocheConBuenasFlores ==
    /\ escenario.tipo = "flor"
    /\ ~ event_dia
    /\ escenario.calidad = MaxCalidad
    /\ escenario.capacidad_polen = MaxPolen
    /\ escenario.azar = 10 * MaxPolen
    /\ pc[LaRecolectora] = "vida"
    /\ loc[LaRecolectora] = 0


\* ----------------------------------------------------------------- C19
\* t makes its next call of the run: alimentar_larva begins with consumir_nectar
LlamaConsumirNectar(t) == pc[t] = "ciclo" /\ pendientes'[t] # pendientes[t]

\* t is inside consumir_nectar, past the check of the cells
EnConsumirNectar(t) == pc[t] \in {"con_estadisticas", "con_return"}

\* C19: consumir_nectar called when celdas_ocupadas = 0 returns False and changes
\* neither celdas_ocupadas, nor the value of semaforo_celdas, nor any statistic
\* (contador_global, estadisticas_abejas); called when celdas_ocupadas > 0 it
\* decrements celdas_ocupadas by exactly 1 and returns True, which takes its
\* caller alimentar_larva on to the check of the larvae
ConsumirNectarSegunCeldas ==
    [][\A t \in DOMAIN pc :
          /\ LlamaConsumirNectar(t) =>
                IF celdas_ocupadas = 0
                   THEN /\ ret'[t] = "False" /\ pc'[t] = "ciclo"
                        /\ UNCHANGED <<celdas_ocupadas, semaforo_celdas, contador_global,
                                       nectar_consumido>>
                   ELSE /\ celdas_ocupadas' = celdas_ocupadas - 1
                        /\ EnConsumirNectar(t)'
          /\ EnConsumirNectar(t) =>
                /\ celdas_ocupadas' = celdas_ocupadas
                /\ EnConsumirNectar(t)' \/ pc'[t] = "ali_larvas"]_vars

\* a run that began with nectar in one cell has made two calls: the first took
\* the cell and fed a larva, the second found no cell and returned False
ConsumirConYSinNectar ==
    /\ EntreLlamadas
    /\ CeldasAlEmpezar = 1 /\ LlamadasHechas = 2
    /\ celdas_ocupadas = 0
    /\ semaforo_celdas = capacidad_celdas
    /\ Leer(nectar_consumido, LaNodriza) = 1
    /\ larvas_alimentadas = 1
    /\ ret[LaNodriza] = "False"


\* ----------------------------------------------------------------- C20
\* reasignar_roles calls cambiar_rol on the bee in this step
Reasignada(t) == pc[IdReina] = "reina_roles" /\ rol'[t] # rol[t]

\* C20: reasignar_roles only ever calls cambiar_rol on a bee that is in
\* abejas_activas and whose thread is still running: never on a bee whose run is
\* over, such as one whose "muerte" message still waits in queue_reina
ReasignaSoloVivas ==
    [][\A t \in DOMAIN rol : Reasignada(t) => EstaActiva(t) /\ pc[t] # "muerta"]_vars


\* ----------------------------------------------------------------- C21
\* t is inside self.trabajar()
EnTrabajar(t) ==
    pc[t] \notin {"vida", "dia", "except", "finally", "enviar_muerte", "muerta"}

\* the night test of t's round sent it to rest; it let t through
PuertaCerrada(t) == puerta[t] # SinPuerta /\ ~ puerta[t][1] /\ puerta[t][2] # "defensora"
PuertaAbierta(t) == puerta[t] # SinPuerta /\ (puerta[t][1] \/ puerta[t][2] = "defensora")

\* C21: in each round of its loop a bee whose rol is not "defensora" calls
\* trabajar only if event_dia was set at the night test of that round, and else
\* does no work in that round; a bee whose rol is "defensora" calls trabajar
\* whatever event_dia says; no round calls trabajar more than once (trabajar is
\* entered from the night test only, and from its end the bee goes back to the
\* test of the while)
TrabajaSoloDeDia ==
    [][\A t \in DOMAIN pc :
          /\ (pc[t] = "dia" /\ pc'[t] # "dia") =>
                IF rol[t] = "defensora" \/ event_dia THEN EnTrabajar(t)' ELSE pc'[t] = "vida"
          /\ (~ EnTrabajar(t) /\ EnTrabajar(t)') => pc[t] = "dia"
          /\ (EnTrabajar(t) /\ ~ EnTrabajar(t)') => pc'[t] = "vida"
          /\ EnTrabajar(t)' => PuertaAbierta(t)'
          /\ PuertaCerrada(t)' => pc'[t] = "vida"]_vars

\* by night the Reina has been sent to rest and a Defensora is at work
DescansoYGuardiaDeNoche ==
    /\ ~ event_dia
    /\ pc[IdReina] = "vida" /\ puerta[IdReina] = <<FALSE, "reina">>
    /\ \E t \in DOMAIN pc :
          /\ clase[t] = "defensora"
          /\ pc[t] = "ciclo" /\ puerta[t] = <<FALSE, "defensora">>


\* ----------------------------------------------------------------- C22
\* the messages of a kind that t put into queue_reina and that wait there
MensajesEnCola(t, tipo) ==
    {i \in DOMAIN queue_reina : /\ queue_reina[i].tipo = tipo
                                /\ Campo(queue_reina[i], "id") = t}

\* t, an Almacenadora, is about to call obtener_nectar_cola and takes its step
DesencolaVacio(t) ==
    /\ pc[t] = "ciclo" /\ clase[t] = "almacenadora"
    /\ ret[t] = "None" /\ loc[t] = 0
    /\ queue_nectar = << >>
    /\ pc'[t] # pc[t]

\* t ends the trabajar in which it took an amount out of queue_nectar
FinTrasDesencolar(t) ==
    /\ pc[t] = "ciclo" /\ clase[t] = "almacenadora"
    /\ ret[t] # "None"
    /\ pc'[t] # pc[t]

\* C22: an Almacenadora puts an "inactiva" message into queue_reina exactly when
\* intentos_vacios goes above 10, on the 11th empty obtener_nectar_cola in a row,
\* and then sets intentos_vacios to 0; a trabajar that found an amount sets it to
\* 0; so intentos_vacios is within 0..10 between two calls of trabajar and no
\* "inactiva" message is put after fewer than 11 empty tries in a row
InactivaAlUndecimoVacio ==
    [][\A t \in DOMAIN pc :
          /\ DesencolaVacio(t) =>
                IF intentos[t] = 10
                   THEN /\ queue_reina' = Append(queue_reina,
                                                 [tipo |-> "inactiva", rol |-> rol[t],
                                                  id |-> t, intentos |-> 11])
                        /\ intentos'[t] = 0
                   ELSE /\ queue_reina' = queue_reina
                        /\ intentos'[t] = intentos[t] + 1
          /\ FinTrasDesencolar(t) => intentos'[t] = 0
          /\ ~ DesencolaVacio(t) =>
                Cardinality(MensajesEnCola(t, "inactiva")') <=
                   Cardinality(MensajesEnCola(t, "inactiva"))
          /\ ~ EnTrabajar(t)' => intentos'[t] \in 0..10]_vars

\* an Almacenadora has told the Reina of 11 empty tries and has counted 10 more
InactivaYDiezVacios ==
    \E t \in DOMAIN pc :
       /\ clase[t] = "almacenadora"
       /\ \E i \in MensajesEnCola(t, "inactiva") : queue_reina[i].intentos = 11
       /\ intentos[t] = 10
       /\ pc[t] = "vida"


\* ----------------------------------------------------------------- C23
\* t, a Nodriza, has the value that alimentar_larva returned and takes its step
TrasAlimentar(t, retorno) ==
    /\ pc[t] = "ciclo" /\ clase[t] = "nodriza"
    /\ ret[t] = retorno
    /\ pc'[t] # pc[t]

\* C23: a Nodriza puts a "falta_alimento" message into queue_reina exactly when
\* intentos_sin_alimento goes above 5, on the 6th alimentar_larva in a row that
\* returned False, and then sets intentos_sin_alimento to 0; an alimentar_larva
\* that returned True sets it to 0; so intentos_sin_alimento is within 0..5
\* between two calls of trabajar
FaltaAlimentoAlSextoFallo ==
    [][\A t \in DOMAIN pc :
          /\ TrasAlimentar(t, "False") =>
                IF intentos[t] = 5
                   THEN /\ queue_reina' = Append(queue_reina,
                                                 [tipo |-> "falta_alimento", rol |-> rol[t],
                                                  id |-> t])
                        /\ intentos'[t] = 0
                   ELSE /\ queue_reina' = queue_reina
                        /\ intentos'[t] = intentos[t] + 1
          /\ TrasAlimentar(t, "True") => intentos'[t] = 0 /\ queue_reina' = queue_reina
          /\ ~ TrasAlimentar(t, "False") =>
                Cardinality(MensajesEnCola(t, "falta_alimento")') <=
                   Cardinality(MensajesEnCola(t, "falta_alimento"))
          /\ (clase[t] = "nodriza" /\ ~ EnTrabajar(t)') => intentos'[t] \in 0..5]_vars

\* a Nodriza has told the Reina of 6 failures and has counted 5 more
FaltaAlimentoYCincoFallos ==
    \E t \in DOMAIN pc :
       /\ clase[t] = "nodriza"
       /\ MensajesEnCola(t, "falta_alimento") # {}
       /\ intentos[t] = 5
       /\ pc[t] = "vida"



\* ------------------------------------------------ the Reina's mailbox
\* The first day of a run of the hive (EventoDiaNoche still sleeps): the Reina,
\* a Nodriza and a Defensora, with nectar in the cells or without
ObrerasCorreo == <<"nodriza", "defensora">>

InitCorreo ==
    \E ocupadas \in 0..MaxCeldas : ColmenaEnMarcha("vida", ObrerasCorreo, ocupadas, 0)

\* one step of the thread of the bee t
PasoDeAbeja(t) ==
    /\ t \in DOMAIN pc
    /\ \/ run_while(t)
       \/ run_dia(t)
       \/ run_finally(t)
       \/ run_enviar_muerte(t)
       \/ Nodriza_alimentar(t)
       \/ consumir_nectar_estadisticas(t)
       \/ consumir_nectar_return(t)
       \/ alimentar_larva_larvas(t)
       \/ alimentar_larva_estadisticas(t)
       \/ alimentar_larva_return(t)
       \/ Nodriza_fin(t)
       \/ Defensora_trabajar(t)
       \/ Reina_mensaje(t)
       \/ Reina_roles(t)
       \/ Reina_metricas(t)
       \/ obtener_metricas_celdas(t)
       \/ obtener_metricas_return(t)
       \/ Reina_sin_metricas(t)

NextCorreo ==
    \/ \E t \in DOMAIN pc : PasoDeAbeja(t)
    \/ GestorEventos_run

\* the ids that the bees of these runs can carry
IdsCorreo == IdReina..(PrimeraObrera + Len(ObrerasCorreo) + MaxReemplazos - 1)

\* every thread of a bee is scheduled: a bee that can go on takes a step. Nothing
\* is said of when GestorEventos ends the run
JusticiaDeAbejas == \A t \in IdsCorreo : WF_vars(PasoDeAbeja(t))

SpecCorreo == InitCorreo /\ [][NextCorreo]_vars /\ JusticiaDeAbejas

\* ----------------------------------------------------------------- C24
\* the Reina is in the loop of run
ReinaViva == pc[IdReina] \notin {"except", "finally", "enviar_muerte", "muerta"}

\* the "muerte" messages of the workers that wait in queue_reina
MuertesPendientes ==
    {i \in DOMAIN queue_reina : /\ queue_reina[i].tipo = "muerte"
                                /\ queue_reina[i].rol \in RolesObrera}

\* C24: while the Reina is in her loop and event_fin_simulacion is not set, every
\* "muerte" message put into queue_reina is in the end taken out of it, and a bee
\* of the role it names is then started
MuerteAtendida ==
    (MuertesPendientes # {}) ~>
       \/ MuertesPendientes = {} /\ Reemplazos >= 1
       \/ event_fin_simulacion
       \/ ~ ReinaViva


\* ----------------------------------------------------------------- C25
\* identificar_desequilibrio names a surplus role and a deficit role, and no bee
\* of abejas_activas carries the surplus role
ExcedenteSinAbeja ==
    \E e \in RolesObrera, d \in RolesObrera :
       /\ EsExcedente(e) /\ SobreUmbral(DiferenciaDe(e))
       /\ EsDeficiente(d) /\ BajoUmbral(DiferenciaDe(d))
       /\ \A i \in DOMAIN abejas_activas : rol[abejas_activas[i]] # e

\* C25: when reasignar_roles finds a surplus role and a deficit role and no bee of
\* abejas_activas carries the surplus role, or the census adds up to 0, the call
\* does nothing: it returns (False) and the census, the rol of every bee,
\* abejas_activas and cambios_rol are as they were
SinCandidataNoCambia ==
    [][ (ExcedenteSinAbeja \/ TotalAbejas(abejas_por_rol) = 0) =>
          /\ abejas_por_rol' = abejas_por_rol
          /\ rol' = rol
          /\ abejas_activas' = abejas_activas
          /\ contador_global'.cambios_rol = contador_global.cambios_rol
          /\ ret'[IdReina] = "False"
      ]_vars

\* a call has returned False in a hive whose surplus role is carried by bees that
\* the census counts and abejas_activas does not hold, with other bees registered
RetornoSinCandidata ==
    /\ ExcedenteSinAbeja
    /\ Len(abejas_activas) >= 2
    /\ contador_global.cambios_rol = 0
    /\ ret[IdReina] = "False"


\* ----------------------------------------------------------------- C26
\* every bee that was constructed, the Reina and the dead ones too
Construidas == DOMAIN pc

\* no count of the census is negative and the counts add up to the bees constructed
CensoDeConstruidas ==
    /\ \A r \in DOMAIN abejas_por_rol : abejas_por_rol[r] >= 0
    /\ TotalAbejas(abejas_por_rol) = Cardinality(Construidas)

EnBucle(t) == pc[t] \notin {"except", "finally", "enviar_muerte", "muerta"}

\* the workers in their loop, and those that main started
ObrerasVivas == {t \in DOMAIN pc : clase[t] \in RolesObrera /\ EnBucle(t)}
ObrerasIniciales == escenario.llamadores

\* the "muerte" messages in queue_reina
MuertesEnviadas == {i \in DOMAIN queue_reina : queue_reina[i].tipo = "muerte"}

\* C27: the workers in their loop are never more than the workers that main
\* started: a bee puts at most one "muerte" message into queue_reina, as the last
\* step of its thread, and each "muerte" message taken out of queue_reina starts at
\* most one replacement (one for a worker's role, none for "reina"); no bee is
\* started in any other way
VivasNoSuperanIniciales ==
    /\ Cardinality(ObrerasVivas) <= ObrerasIniciales
    /\ [][ /\ Cardinality(ObrerasVivas') <= ObrerasIniciales
           /\ \A t \in DOMAIN pc :
                 /\ pc[t] = "muerta" => pc'[t] = "muerta"
                 /\ Cardinality(MuertesEnCola(t)') > Cardinality(MuertesEnCola(t)) =>
                       /\ pc[t] # "muerta" /\ pc'[t] = "muerta"
                       /\ Cardinality(MuertesEnCola(t)') = 1
           /\ Cardinality(DOMAIN pc') <= Cardinality(DOMAIN pc) + 1
           /\ DOMAIN pc' # DOMAIN pc =>
                 /\ queue_reina # << >>
                 /\ Head(queue_reina).tipo = "muerte"
                 /\ Head(queue_reina).rol \in RolesObrera
                 /\ Cardinality(MuertesEnviadas') = Cardinality(MuertesEnviadas) - 1
                 /\ \A n \in DOMAIN pc' \ DOMAIN pc : clase'[n] = Head(queue_reina).rol
         ]_vars

\* a worker died, its message was dispatched and its replacement is the one
\* worker in its loop
ReemplazoEnLugarDeLaMuerta ==
    /\ Reemplazos = 1
    /\ \E t \in DOMAIN pc : /\ clase[t] \in RolesObrera
                            /\ pc[t] = "muerta" /\ fin_al_salir[t] = "False"
                            /\ MuertesEnCola(t) = {}
    /\ Cardinality(ObrerasVivas) = ObrerasIniciales


\* ---------------------------------------------------------- the attacks
\* Colmena.neutralizar_ataque: self.event_ataque.clear()
neutralizar_ataque_clear(t) ==
    /\ pc[t] = "neutralizar"
    /\ event_ataque' = FALSE
    /\ pc' = [pc EXCEPT ![t] = "neu_estadisticas"]
    /\ UNCHANGED <<colmenaVars, clase, loc, ret, pendientes, escenario, estadVars, censoVars,
                   reinaVars, event_fin_simulacion, event_dia, colaVars, intentos,
                   fin_al_salir, rol_ciclo, puerta, eventos>>

\* with self.lock_estadisticas: ataques_neutralizados += 1
neutralizar_ataque_estadisticas(t) ==
    /\ pc[t] = "neu_estadisticas"
    /\ locks["lock_estadisticas"] = Libre
    /\ contador_global' = [contador_global EXCEPT !.ataques_neutralizados = @ + 1]
    /\ pc' = [pc EXCEPT ![t] = "vida"]
    /\ UNCHANGED <<celdasVars, locks, clase, loc, ret, pendientes, otrasVars>>

\* EventoAtaque.run: after the sleep it stops if the end was signalled; else, if
\* random.random() < probabilidad_actual, Colmena.registrar_ataque sets
\* event_ataque; else it sleeps again
EventoAtaque_despierta ==
    /\ eventos.ataque = "espera"
    /\ IF event_fin_simulacion
          THEN /\ eventos' = [eventos EXCEPT !.ataque = "fin"]
               /\ event_ataque' = event_ataque
          ELSE /\ contador_global.ataques_detectados < MaxAtaques
               /\ eventos' = [eventos EXCEPT !.ataque = "reg_estadisticas"]
               /\ event_ataque' = TRUE
    /\ UNCHANGED <<colmenaVars, hiloVars, pendientes, escenario, estadVars, censoVars,
                   reinaVars, event_fin_simulacion, event_dia, colaVars, intentos,
                   fin_al_salir, rol_ciclo, puerta>>

\* Colmena.registrar_ataque: with self.lock_estadisticas: ataques_detectados += 1
registrar_ataque_estadisticas ==
    /\ eventos.ataque = "reg_estadisticas"
    /\ locks["lock_estadisticas"] = Libre
    /\ contador_global' = [contador_global EXCEPT !.ataques_detectados = @ + 1]
    /\ eventos' = [eventos EXCEPT !.ataque = "vigila"]
    /\ UNCHANGED <<celdasVars, locks, hiloVars, pendientes, escenario, estadVars, censoVars,
                   reinaVars, eventVars, colaVars, intentos, fin_al_salir, rol_ciclo, puerta>>

\* the wait for the Defensoras ends (event_ataque cleared, 5 seconds gone or the
\* end of the run): if self.colmena.event_ataque.is_set(): event_ataque.clear()
EventoAtaque_vigila ==
    /\ eventos.ataque = "vigila"
    /\ event_ataque' = FALSE
    /\ eventos' = [eventos EXCEPT !.ataque = "espera"]
    /\ UNCHANGED <<colmenaVars, hiloVars, pendientes, escenario, estadVars, censoVars,
                   reinaVars, event_fin_simulacion, event_dia, colaVars, intentos,
                   fin_al_salir, rol_ciclo, puerta>>

\* A run whose bees all outlive it: the Reina and the Defensoras, with the
\* threads of eventos.py
InitAtaque ==
    \E n \in 1..MaxDefensoras :
        ColmenaEnMarcha("ataque", [i \in 1..n |-> "defensora"], 0, 0)

NextAtaque ==
    \/ \E t \in DOMAIN pc : run_while(t)
    \/ \E t \in DOMAIN pc : run_dia(t)
    \/ \E t \in DOMAIN pc : run_finally(t)
    \/ \E t \in DOMAIN pc : Defensora_trabajar(t)
    \/ \E t \in DOMAIN pc : neutralizar_ataque_clear(t)
    \/ \E t \in DOMAIN pc : neutralizar_ataque_estadisticas(t)
    \/ \E t \in DOMAIN pc : Reina_mensaje(t)
    \/ \E t \in DOMAIN pc : Reina_roles(t)
    \/ \E t \in DOMAIN pc : Reina_metricas(t)
    \/ \E t \in DOMAIN pc : obtener_metricas_celdas(t)
    \/ \E t \in DOMAIN pc : obtener_metricas_return(t)
    \/ \E t \in DOMAIN pc : Reina_sin_metricas(t)
    \/ EventoAtaque_despierta
    \/ registrar_ataque_estadisticas
    \/ EventoAtaque_vigila
    \/ GestorEventos_run
    \/ EventoDiaNoche_run

SpecAtaque == InitAtaque /\ [][NextAtaque]_vars

\* ----------------------------------------------------------------- C28
\* C28: in every reachable state ataques_neutralizados <= ataques_detectados,
\* however many Defensoras react to an attack and however their steps fall among
\* those of EventoAtaque, which raises event_ataque and clears it
NeutralizadosNoSuperanDetectados ==
    contador_global.ataques_neutralizados <= contador_global.ataques_detectados


\* ------------------------------------------- the way of the nectar
\* A hive as main builds it, no cell taken, with a Recolectora and an
\* Almacenadora; queue_nectar may already hold amounts that were collected
\* and counted
ObrerasNectar == <<"recolectora", "almacenadora">>

InitNectar ==
    \E encolado \in 0..MaxEncolado :
        ColmenaEnMarcha("nectar", ObrerasNectar, 0, encolado)

NextNectar ==
    \/ \E t \in DOMAIN pc : run_while(t)
    \/ \E t \in DOMAIN pc : run_dia(t)
    \/ \E t \in DOMAIN pc : run_finally(t)
    \/ \E t \in DOMAIN pc : visitar_flor_dia(t)
    \/ \E t \in DOMAIN pc : visitar_flor_estadisticas(t)
    \/ \E t \in DOMAIN pc : agregar_nectar_cola_put(t)
    \/ \E t \in DOMAIN pc : agregar_nectar_cola_estadisticas(t)
    \/ \E t \in DOMAIN pc : Almacenadora_obtener(t)
    \/ \E t \in DOMAIN pc : Almacenadora_almacenar(t)
    \/ \E t \in DOMAIN pc : almacenar_nectar_celdas(t)
    \/ \E t \in DOMAIN pc : almacenar_nectar_estadisticas(t)
    \/ \E t \in DOMAIN pc : Almacenadora_fin(t)
    \/ \E t \in DOMAIN pc : Reina_mensaje(t)
    \/ \E t \in DOMAIN pc : Reina_roles(t)
    \/ \E t \in DOMAIN pc : Reina_metricas(t)
    \/ \E t \in DOMAIN pc : obtener_metricas_celdas(t)
    \/ \E t \in DOMAIN pc : obtener_metricas_return(t)
    \/ \E t \in DOMAIN pc : Reina_sin_metricas(t)
    \/ GestorEventos_run
    \/ EventoDiaNoche_run

SpecNectar == InitNectar /\ [][NextNectar]_vars

\* the amounts that queue_nectar holds, added up
RECURSIVE NectarEnCola(_)
NectarEnCola(cola) ==
    IF cola = << >> THEN 0 ELSE Head(cola).cantidad + NectarEnCola(Tail(cola))

\* a Recolectora inside agregar_nectar_cola
EnAgregarNectar(t) == pc[t] \in {"cola_nectar", "cola_estadisticas"}

\* an Almacenadora that took an amount from the queue and has not yet come
\* back from almacenar_nectar and ended its trabajar
EntreObtenerYAlmacenar(t) ==
    /\ clase[t] = "almacenadora"
    /\ \/ loc[t] > 0
       \/ ret[t] # "None"
       \/ pc[t] \in {"alm_celdas", "alm_estadisticas"}

NectarEnReposo ==
    \A t \in DOMAIN pc : ~ EnAgregarNectar(t) /\ ~ EntreObtenerYAlmacenar(t)

\* ----------------------------------------------------------------- C29
\* C29: no collected nectar is lost: whenever no Recolectora is inside
\* agregar_nectar_cola and no Almacenadora is between obtener_nectar_cola and
\* almacenar_nectar, nectar_recolectado equals nectar_almacenado plus the
\* amounts still in queue_nectar, also when every cell is taken
NectarNoSePierde ==
    NectarEnReposo =>
        contador_global.nectar_recolectado =
            contador_global.nectar_almacenado + NectarEnCola(queue_nectar)

====
